---- MODULE Spec2Model ----
(***************************************************************************)
(* Reading-practice platform: the assignment / recording / review /       *)
(* flagging pipeline.  The React client (StoryReader, AssignmentCard,     *)
(* StudentDashboard, AudioRecorder, RecordingReview, AdvancedAnalytics,   *)
(* services/api.ts) is translated from its source.  The Django REST       *)
(* backend those components call is not part of the sources at hand; its  *)
(* operations (the definitions whose names start with Server, Engine or   *)
(* db) follow the contracts of the specification, sections 3 to 7.        *)
(***************************************************************************)
EXTENDS Integers, Sequences, FiniteSets

(* ------------------------------------------------------------------ *)
(* Bounds of the model                                                  *)
(* ------------------------------------------------------------------ *)
\* the students and the assignments of the model
Students == {1, 2}
Assignments == {1}
\* the students an engine run scans, 1..n
ScanStudents == {1}
\* uploads the student clients send in one behaviour, all pairs together
MaxUploads == 4
\* the (fluency, accuracy) scores of the out-of-range reviews posted directly
ApiScorePairs == {<<0, 3>>, <<3, 6>>}
\* the options the teacher picks in SpecReview
FluencyInputs == {5}
AccuracyInputs == {1}
GradeInputs == {"excellent"}
\* the texts typed into the feedback textarea
FeedbackInputs == {"", "Good pacing"}
\* uploads the student client sends in one behaviour of the whole pipeline
MaxPipelineUploads == 2
\* engine runs in progress at the same time
MaxRuns == 2
\* trigger-analysis requests waiting to be served at the same time
MaxTriggers == 1
\* evaluation windows a student's history goes through in one behaviour
MaxWindow == 1
\* clicks on the Resolve buttons whose requests are under way together
MaxClicks == 2
\* items a completion rate is computed over
MaxTotal == 3
\* scored recordings an average is computed over
MaxScored == 2
\* assignments created in one behaviour
MaxCreated == 2

(* ------------------------------------------------------------------ *)
(* Program constants                                                    *)
(* ------------------------------------------------------------------ *)
\* App.tsx: <option value={-1}>Unlimited</option>
Unlimited == -1
\* the select also offers no attempt at all
MaxAttemptsWithZero == {0, 1, 2, 3, 5, Unlimited}
\* App.tsx: the options of the max-attempts select
MaxAttemptsOptions == {1, 2, 3, 5, Unlimited}
\* selects whose options start at 0
ScoreOptionsFromZero == {0, 1, 2, 3, 4, 5}
\* RecordingReview.tsx: the options of the fluency and accuracy selects
ScoreOptions == {1, 2, 3, 4, 5}
\* the range of a score (specification 3, 4.2)
MinScore == 1
MaxScore == 5
\* RecordingReview.tsx: the values of the grade radio buttons
Grades == {"excellent", "good", "needs_practice"}
\* RecordingReview.tsx: reviewedRecordings.slice(0, 6)
ReviewedSlice == 6
\* the flag types of the engine's threshold rules (specification 4.3)
FlagTypes == <<"low_submission_rate", "submission_gap", "declining_scores">>
FlagTypeSet == {FlagTypes[k] : k \in 1..Len(FlagTypes)}
\* AdvancedAnalytics.tsx: the notes the Resolve button passes
ResolveNotes == "Addressed with student"
\* Recording.status
RecordingStatus == {"pending", "reviewed", "flagged"}
\* a nullable score that is absent; a nullable text that is absent
NoScore == 0
NoText == ""
\* the ways an upload fails before anything is persisted: the payload is over
\* the size ceiling, its media type is not allowed, the transfer was aborted
UploadFailures == {"tooLarge", "unsupported", "aborted"}
NoResponses ==
    [created |-> 0, limitExceeded |-> 0, tooLarge |-> 0, unsupported |-> 0, aborted |-> 0]
\* assignments state of StudentDashboard before loadData has answered
NotLoaded == [attempts_used |-> 0, is_completed |-> FALSE, can_attempt |-> FALSE,
              loaded |-> FALSE]

\* App.tsx: max_attempts of a new AssignmentCreation form
DefaultMaxAttempts == 3

\* App.tsx: the assignment state of a new AssignmentCreation form
InitialAssignment ==
    [class_id |-> 0, story_id |-> 0, title |-> NoText, description |-> NoText,
     due_date |-> NoText, max_attempts |-> DefaultMaxAttempts]

VARIABLES
    \* ---- backend: relational store
    maxAttempts,     \* Assignment.max_attempts, by assignment id
    dbProgress,      \* StudentAssignmentProgress, by student and assignment
    dbRecordings,    \* Recording rows, in order of insertion; the id is the index
    rowLock,         \* serialization point of a (student, assignment) progress row
    \* ---- upload requests between StoryReader and the backend
    upReq,           \* POST /recordings/student/ sent, not yet taken by a worker
    upWork,          \* workers holding a request: the attempts_used each one read
    upResp,          \* responses on their way back: how many 201s, how many errors
    sent,            \* uploads sent so far (bounds the behaviour)
    \* ---- student client
    assignments,     \* StudentDashboard.assignments, per student
    showReader,      \* AssignmentCard.showReader
    showRecording,   \* StoryReader.showRecording
    \* ---- teacher client (RecordingReview)
    recordings,        \* the recordings state: the list loadRecordings fetched
    selectedRecording, \* id of the recording in the review modal, 0 for null
    reviewForm,        \* the reviewForm state
    submitLoading,     \* the submitLoading state
    reviewError,       \* the error state of RecordingReview
    \* ---- review requests between any client and the backend
    revReq,          \* POST /recordings/<id>/review/ sent, not yet served
    revResp,         \* responses on their way back
    \* ---- backend: Analytics / Flagging Engine
    dbFlags,         \* StudentFlag rows, in order of insertion; the id is the index
    window,          \* identity of the evaluation window of each student's history
    cond,            \* whether each threshold rule fires on the current window
    flagLock,        \* serialization point of a (student, flag type) pair
    runs,            \* the engine runs in progress
    \* ---- analytics requests between AdvancedAnalytics and the backend
    trigReq,         \* POST /analytics/trigger-analysis/ sent, not yet served
    resReq,          \* POST /analytics/flags/<id>/resolve/ sent, not yet served
    resResp,         \* responses to resolve requests on their way back
    \* ---- teacher client (AdvancedAnalytics)
    flags,           \* the flags state
    analyticsError,  \* the error state of AdvancedAnalytics
    \* ---- the browser session (AuthContext, LoginForm)
    localStorage,    \* window.localStorage, by key
    user,            \* AuthContext.user, NoUser for null
    authLoading,     \* AuthContext.loading
    loginLoading,    \* LoginForm.loading
    loginError,      \* LoginForm.error
    \* ---- backend: token authentication
    sessions,        \* the tokens the backend accepts
    authReq,         \* /auth/ requests sent, not yet served
    authResp,        \* responses on their way back
    \* ---- teacher client (BulkReports) and the Report Generator
    availableReports,  \* the availableReports state
    generatingReports, \* the generatingReports state
    reportError,       \* the error state of BulkReports
    repReq,          \* GET /analytics/reports/generate/ sent, not yet served
    repResp,         \* responses on their way back
    \* ---- aggregates and where they are shown
    aggregate,       \* the counts and sums an aggregate is computed from
    shown,           \* what each view displays for the aggregate
    \* ---- answers to trigger-analysis requests
    trigResp,        \* rejections of POST /analytics/trigger-analysis/ on their way back
    \* ---- student client: free practice (StoryCard)
    practiceReader,    \* StoryCard.showReader, per student
    practiceRecording, \* showRecording of the StoryReader a StoryCard opened
    completions,       \* recordings completed in a StoryReader so far
    \* ---- teacher client (AssignmentCreation) and the Assignment Tracker
    newAssignment,   \* the assignment state of the form
    selectedStory,   \* the selectedStory state, 0 for null
    createLoading,   \* the loading state
    createError,     \* the error state
    createSuccess,   \* the success state
    createReq,       \* POST /classes/assignments/create/ sent, not yet served
    createResp,      \* responses on their way back
    dbAssignments,   \* ClassAssignment rows created, in order of insertion
    selectedStories, \* BulkAudioGeneration: the stories ticked for generation
    selectedVoices,  \* BulkAudioGeneration: the voice types ticked
    generationJobs,  \* BulkAudioGeneration: the jobs, newest first
    intervals,       \* the setInterval timers of simulateGeneration, by creation
    now,             \* Date.now(), in milliseconds
    bulkMounted,     \* the audio tab of the teacher dashboard is shown
    studentSearchQuery, \* ClassManagement: the text of the search box
    searchResults,   \* ClassManagement: the students listed under the box
    searchLoading,   \* ClassManagement: "Searching..." is shown
    classError,      \* ClassManagement: the error line
    selectedClass,   \* ClassManagement: the students of the open class
    classReq,        \* class requests on their way to the backend
    classResp,       \* answers on their way back
    classSent,       \* search requests sent so far
    dbClass,         \* the students of the class in the database
    isRecording,     \* AudioRecorder state
    hasRecording,
    recordingTime,
    recError,        \* AudioRecorder: the error line
    pendingMedia,    \* getUserMedia calls not yet resolved
    mediaRecorderRef, \* the MediaRecorder the ref holds, by number
    recorders,       \* the state of every MediaRecorder created
    audioChunksRef,  \* the chunks pushed, each named by its MediaRecorder
    audioUrlRef,     \* the audio of the object URL, if any
    timerRef,        \* the interval the ref holds, by number
    timers,          \* the intervals that are set
    lastStopped,     \* the MediaRecorder stopRecording stopped last
    submittedAudio,  \* the blobs handed to onComplete
    pendingDownloads, \* BulkReports: the timeouts of Download All not yet fired
    maxRequests,     \* createRateLimiter: its parameters,
    timeWindow,
    requests,        \* the times it keeps,
    rateLog,         \* and every call made so far, with its time and result
    minInterval,     \* createSubmissionLimiter: its parameter,
    lastSubmission,  \* the time it keeps,
    submitLog        \* and every call made so far

dbVars == <<maxAttempts, dbProgress, dbRecordings>>
uploadNet == <<rowLock, upReq, upWork, upResp, sent>>
studentUI == <<assignments, showReader, showRecording>>

teacherUI == <<recordings, selectedRecording, reviewForm, submitLoading, reviewError>>
reviewNet == <<revReq, revResp>>

flagDb == <<dbFlags, window, cond, flagLock, runs>>
flagNet == <<trigReq, resReq, resResp>>
analyticsUI == <<flags, analyticsError>>

\* what the upload path, the review path and the analytics path leave alone
reviewSide == <<teacherUI, reviewNet>>
uploadSide == <<uploadNet, studentUI>>
flagSide == <<flagDb, flagNet, analyticsUI>>

authUI == <<localStorage, user, authLoading, loginLoading, loginError>>
authNet == <<sessions, authReq, authResp>>
reportUI == <<availableReports, generatingReports, reportError>>
reportNet == <<repReq, repResp>>

authSide == <<authUI, authNet>>
reportSide == <<reportUI, reportNet>>

\* what the recording, review and flag paths leave alone
roundSide == <<aggregate, shown>>
trigSide == <<trigResp>>
practiceSide == <<practiceReader, practiceRecording, completions>>
createUI == <<newAssignment, selectedStory, createLoading, createError, createSuccess>>
createNet == <<createReq, createResp, dbAssignments>>
createSide == <<createUI, createNet>>

\* the pages next to the session and the reports
otherPages == <<roundSide, trigSide, practiceSide, createSide>>
appSide == <<authSide, reportSide, otherPages>>

\* the self-contained components and utilities
bulkSide == <<selectedStories, selectedVoices, generationJobs, intervals, now,
              bulkMounted>>
searchSide == <<studentSearchQuery, searchResults, searchLoading, classError,
                selectedClass, classReq, classResp, classSent, dbClass>>
recorderSide == <<isRecording, hasRecording, recordingTime, recError, pendingMedia,
                  mediaRecorderRef, recorders, audioChunksRef, audioUrlRef,
                  timerRef, timers, lastStopped, submittedAudio>>
downloadSide == <<pendingDownloads>>
limiterSide == <<maxRequests, timeWindow, requests, rateLog, minInterval,
                 lastSubmission, submitLog>>
widgetSide == <<bulkSide, searchSide, recorderSide, downloadSide, limiterSide>>

\* what the session and report paths leave alone
coreSide == <<dbVars, uploadSide, reviewSide, flagSide>>

vars == <<coreSide, appSide, widgetSide>>

\* what each of these components leaves alone
besidesBulk == <<coreSide, appSide, searchSide, recorderSide, downloadSide, limiterSide>>
besidesSearch == <<coreSide, appSide, bulkSide, recorderSide, downloadSide, limiterSide>>
besidesRecorder == <<coreSide, appSide, bulkSide, searchSide, downloadSide, limiterSide>>
besidesDownloads == <<bulkSide, searchSide, recorderSide, limiterSide>>
besidesLimiters == <<coreSide, appSide, bulkSide, searchSide, recorderSide, downloadSide>>

(* ------------------------------------------------------------------ *)
(* Backend: Recording Store (specification 4.1, 5)                      *)
(* ------------------------------------------------------------------ *)
IsUnlimited(a) == maxAttempts[a] = Unlimited

\* the limit check off by one: an upload at the ceiling still passes
UnderLimitOffByOne(a, used) == IsUnlimited(a) \/ used <= maxAttempts[a]

\* the attempt-limit check of an upload that read `used` attempts
UnderLimit(a, used) == IsUnlimited(a) \/ used < maxAttempts[a]

\* StudentAssignment.can_attempt as the backend serializes it
CanAttempt(s, a) == UnderLimit(a, dbProgress[s][a].attempts_used)

\* the StudentAssignment the backend returns for a progress row
SerializeAssignment(s, a) ==
    [attempts_used |-> dbProgress[s][a].attempts_used,
     is_completed |-> dbProgress[s][a].completed,
     can_attempt |-> CanAttempt(s, a),
     loaded |-> TRUE]

\* every row gets the attempt number 1
NewRecordingFirstAttempt(s, a, n) ==
    [student |-> s, assignment |-> a, attempt_number |-> 1, status |-> "pending",
     fluency_score |-> NoScore, accuracy_score |-> NoScore, grade |-> NoText,
     teacher_feedback |-> NoText]

\* the Recording row an accepted upload inserts
NewRecording(s, a, n) ==
    [student |-> s, assignment |-> a, attempt_number |-> n, status |-> "pending",
     fluency_score |-> NoScore, accuracy_score |-> NoScore, grade |-> NoText,
     teacher_feedback |-> NoText]

\* the counter is left as it was read
ProgressNoIncrement(a, used) == [attempts_used |-> used, completed |-> TRUE]

\* completed is set only by the upload that uses the last attempt
ProgressCompletedAtLimit(a, used) ==
    [attempts_used |-> used + 1, completed |-> ~UnderLimit(a, used + 1)]

\* the progress row after an accepted upload that read `used` attempts
ProgressAfterAccept(a, used) == [attempts_used |-> used + 1, completed |-> TRUE]

\* the recordings of a (student, assignment) pair, by id
RecordingsOf(s, a) ==
    {i \in 1..Len(dbRecordings) :
        dbRecordings[i].student = s /\ dbRecordings[i].assignment = a}

\* no serialization point: every worker enters at once
LockFreeNoLock(s, a) == TRUE

\* may a worker enter the serialization point of the pair's progress row
LockFree(s, a) == ~rowLock[s][a]

RemoveAt(q, i) == SubSeq(q, 1, i - 1) \o SubSeq(q, i + 1, Len(q))

\* a worker takes an upload request, locks the progress row and reads it
ServerUploadBegin(s, a) ==
    /\ upReq[s][a] > 0
    /\ LockFree(s, a)
    /\ upReq' = [upReq EXCEPT ![s][a] = @ - 1]
    /\ rowLock' = [rowLock EXCEPT ![s][a] = TRUE]
    /\ upWork' = [upWork EXCEPT ![s][a] = Append(@, dbProgress[s][a].attempts_used)]
    /\ UNCHANGED <<widgetSide, appSide, dbVars, upResp, sent, studentUI, reviewSide, flagSide>>

\* the worker that read `upWork[s][a][w]` decides, writes and releases the row
ServerUploadCommit(s, a, w) ==
    /\ w \in 1..Len(upWork[s][a])
    /\ LET used == upWork[s][a][w] IN
       IF UnderLimit(a, used)
       THEN /\ dbRecordings' = Append(dbRecordings, NewRecording(s, a, used + 1))
            /\ dbProgress' = [dbProgress EXCEPT ![s][a] = ProgressAfterAccept(a, used)]
            /\ upResp' = [upResp EXCEPT ![s][a].created = @ + 1]
       ELSE \* AttemptLimitExceeded
            /\ upResp' = [upResp EXCEPT ![s][a].limitExceeded = @ + 1]
            /\ UNCHANGED <<dbRecordings, dbProgress>>
    /\ upWork' = [upWork EXCEPT ![s][a] = RemoveAt(@, w)]
    /\ rowLock' = [rowLock EXCEPT ![s][a] = FALSE]
    /\ UNCHANGED <<widgetSide, appSide, maxAttempts, upReq, sent, studentUI, reviewSide, flagSide>>

\* a row is inserted before the payload is validated
PartialRecordingRow(s, a) == Append(dbRecordings, NewRecording(s, a, 0))

\* the Recording rows after an upload that failed validation or was aborted
RowsAfterFailedUpload(s, a) == dbRecordings

\* the upload handler validates the payload before persisting: an upload whose
\* payload is too large, of a media type not allowed, or incomplete is answered
\* with the error (PayloadTooLarge, UnsupportedMediaType) or, aborted, with none
ServerUploadReject(s, a, k) ==
    /\ upReq[s][a] > 0
    /\ k \in UploadFailures
    /\ upReq' = [upReq EXCEPT ![s][a] = @ - 1]
    /\ upResp' = [upResp EXCEPT ![s][a][k] = @ + 1]
    /\ dbRecordings' = RowsAfterFailedUpload(s, a)
    /\ UNCHANGED <<widgetSide, appSide, maxAttempts, dbProgress, rowLock, upWork, sent, studentUI,
                   reviewSide, flagSide>>

(* ------------------------------------------------------------------ *)
(* Student client                                                       *)
(* ------------------------------------------------------------------ *)
\* StudentDashboard mounts: loadData fetches the student's assignments; every
\* AssignmentCard and StoryReader below it starts from its initial state
loadData(s) ==
    /\ upReq[s] = [a \in Assignments |-> 0]
    /\ \A a \in Assignments : upWork[s][a] = <<>> /\ upResp[s][a] = NoResponses
    /\ assignments' = [assignments EXCEPT ![s] =
                          [a \in Assignments |-> SerializeAssignment(s, a)]]
    /\ showReader' = [showReader EXCEPT ![s] = [a \in Assignments |-> FALSE]]
    /\ showRecording' = [showRecording EXCEPT ![s] = [a \in Assignments |-> FALSE]]
    /\ UNCHANGED <<widgetSide, appSide, dbVars, uploadNet, reviewSide, flagSide>>

\* AssignmentCard: the start button and handleStartAssignment
handleStartAssignment(s, a) ==
    /\ assignments[s][a].loaded
    /\ ~showReader[s][a]
    /\ ~(~assignments[s][a].can_attempt /\ ~assignments[s][a].is_completed)
    /\ showReader' = [showReader EXCEPT ![s][a] = TRUE]
    /\ UNCHANGED <<widgetSide, appSide, dbVars, uploadNet, assignments, showRecording, reviewSide, flagSide>>

\* StoryReader: onClose
onClose(s, a) ==
    /\ showReader[s][a]
    /\ ~showRecording[s][a]
    /\ showReader' = [showReader EXCEPT ![s][a] = FALSE]
    /\ UNCHANGED <<widgetSide, appSide, dbVars, uploadNet, assignments, showRecording, reviewSide, flagSide>>

\* StoryReader: the record button (disabled when the assignment cannot be
\* attempted) and handleStartRecording
handleStartRecording(s, a) ==
    /\ showReader[s][a]
    /\ ~showRecording[s][a]
    /\ assignments[s][a].can_attempt
    /\ showRecording' = [showRecording EXCEPT ![s][a] = TRUE]
    /\ UNCHANGED <<widgetSide, appSide, dbVars, uploadNet, assignments, showReader, reviewSide, flagSide>>

\* AudioRecorder: onCancel
onCancel(s, a) ==
    /\ showRecording[s][a]
    /\ showRecording' = [showRecording EXCEPT ![s][a] = FALSE]
    /\ UNCHANGED <<widgetSide, appSide, dbVars, uploadNet, assignments, showReader, reviewSide, flagSide>>

\* StoryReader.handleRecordingComplete up to its await: AudioRecorder's Submit
\* button hands over the blob and the upload request leaves.  The recorder stays
\* on screen, with Submit enabled, until a response comes back.
handleRecordingComplete(s, a) ==
    /\ showRecording[s][a]
    /\ completions' = completions + 1
    /\ sent' = sent + 1
    /\ upReq' = [upReq EXCEPT ![s][a] = @ + 1]
    /\ UNCHANGED <<widgetSide, dbVars, rowLock, upWork, upResp, studentUI, reviewSide, flagSide,
                   authSide, reportSide, roundSide, trigSide, practiceReader,
                   practiceRecording, createSide>>

\* StoryCard.handleReadStory: the story opens in a StoryReader without assignment
handleReadStory(s) ==
    /\ ~practiceReader[s]
    /\ practiceReader' = [practiceReader EXCEPT ![s] = TRUE]
    /\ UNCHANGED <<widgetSide, coreSide, authSide, reportSide, roundSide, trigSide,
                   practiceRecording, completions, createSide>>

\* StoryReader opened by a StoryCard: onClose
practiceClose(s) ==
    /\ practiceReader[s]
    /\ ~practiceRecording[s]
    /\ practiceReader' = [practiceReader EXCEPT ![s] = FALSE]
    /\ UNCHANGED <<widgetSide, coreSide, authSide, reportSide, roundSide, trigSide,
                   practiceRecording, completions, createSide>>

\* StoryReader opened by a StoryCard: the record button (never disabled without
\* an assignment) and handleStartRecording
practiceStartRecording(s) ==
    /\ practiceReader[s]
    /\ ~practiceRecording[s]
    /\ practiceRecording' = [practiceRecording EXCEPT ![s] = TRUE]
    /\ UNCHANGED <<widgetSide, coreSide, authSide, reportSide, roundSide, trigSide,
                   practiceReader, completions, createSide>>

\* AudioRecorder of a free-practice StoryReader: onCancel
practiceCancel(s) ==
    /\ practiceRecording[s]
    /\ practiceRecording' = [practiceRecording EXCEPT ![s] = FALSE]
    /\ UNCHANGED <<widgetSide, coreSide, authSide, reportSide, roundSide, trigSide,
                   practiceReader, completions, createSide>>

\* StoryReader.handleRecordingComplete without assignment: the upload is skipped
practiceRecordingComplete(s) ==
    /\ practiceRecording[s]
    /\ completions' = completions + 1
    /\ practiceRecording' = [practiceRecording EXCEPT ![s] = FALSE]
    /\ UNCHANGED <<widgetSide, coreSide, authSide, reportSide, roundSide, trigSide,
                   practiceReader, createSide>>

\* handleRecordingComplete after its await, the upload having succeeded
uploadResolved(s, a) ==
    /\ upResp[s][a].created > 0
    /\ upResp' = [upResp EXCEPT ![s][a].created = @ - 1]
    /\ showRecording' = [showRecording EXCEPT ![s][a] = FALSE]
    /\ UNCHANGED <<widgetSide, appSide, dbVars, rowLock, upReq, upWork, sent, assignments, showReader, reviewSide, flagSide>>

\* handleRecordingComplete after its await, in its catch: whatever the error
uploadRejected(s, a) ==
    /\ \E k \in {"limitExceeded"} \cup UploadFailures :
          /\ upResp[s][a][k] > 0
          /\ upResp' = [upResp EXCEPT ![s][a][k] = @ - 1]
    /\ showRecording' = [showRecording EXCEPT ![s][a] = FALSE]
    /\ UNCHANGED <<widgetSide, appSide, dbVars, rowLock, upReq, upWork, sent, assignments, showReader, reviewSide, flagSide>>

(* ------------------------------------------------------------------ *)
(* Backend: Review Workflow (specification 4.2)                         *)
(* ------------------------------------------------------------------ *)
ValidScore(v) == v \in MinScore..MaxScore

ValidPayload(q) == ValidScore(q.fluency_score) /\ ValidScore(q.accuracy_score)

RecordingExists(i) == i \in 1..Len(dbRecordings)

\* the outcome of a review request against the current rows
ReviewOutcome(q) ==
    IF ~RecordingExists(q.id) THEN "NotFound"
    ELSE IF ~ValidPayload(q) THEN "InvalidScore"
    ELSE IF dbRecordings[q.id].status # "pending" THEN "AlreadyReviewed"
    ELSE "ok"

\* the Recording row after the review q
ApplyReview(r, q) ==
    [r EXCEPT !.status = "reviewed", !.fluency_score = q.fluency_score,
              !.accuracy_score = q.accuracy_score, !.grade = q.grade,
              !.teacher_feedback = q.feedback]

\* the backend serves one review request, start to end
ServerReview(q) ==
    /\ q \in revReq
    /\ revReq' = revReq \ {q}
    /\ revResp' = revResp \cup {[req |-> q, kind |-> ReviewOutcome(q)]}
    /\ IF ReviewOutcome(q) = "ok"
       THEN dbRecordings' = [dbRecordings EXCEPT ![q.id] = ApplyReview(@, q)]
       ELSE UNCHANGED dbRecordings
    /\ UNCHANGED <<widgetSide, appSide, maxAttempts, dbProgress, uploadSide, flagSide, teacherUI>>

\* the backend sets a pending recording aside (status pending -> flagged)
ServerFlagRecording(i) ==
    /\ RecordingExists(i)
    /\ dbRecordings[i].status = "pending"
    /\ dbRecordings' = [dbRecordings EXCEPT ![i].status = "flagged"]
    /\ UNCHANGED <<widgetSide, appSide, maxAttempts, dbProgress, uploadSide, reviewSide, flagSide>>

(* ------------------------------------------------------------------ *)
(* Teacher client: RecordingReview                                      *)
(* ------------------------------------------------------------------ *)
\* useState of reviewForm, and what handleSelectRecording resets it to
InitialReviewForm ==
    [feedback |-> NoText, grade |-> "good", fluency_score |-> 3, accuracy_score |-> 3]

FormInFlight == \E q \in revReq : q.from = "form"
FormAnswered == \E p \in revResp : p.req.from = "form"

\* RecordingReview mounts: loadRecordings fetches the teacher's list
loadRecordings ==
    /\ ~FormInFlight /\ ~FormAnswered
    /\ recordings' = dbRecordings
    /\ selectedRecording' = 0
    /\ reviewForm' = InitialReviewForm
    /\ submitLoading' = FALSE
    /\ reviewError' = NoText
    /\ UNCHANGED <<widgetSide, appSide, dbVars, uploadSide, flagSide, reviewNet>>

pendingRecordings == {i \in 1..Len(recordings) : recordings[i].status = "pending"}
reviewedRecordings == {i \in 1..Len(recordings) : recordings[i].status = "reviewed"}

\* reviewedRecordings.slice(0, 6): the first six reviewed recordings of the list
ReviewedShown ==
    {i \in reviewedRecordings :
        Cardinality({j \in reviewedRecordings : j < i}) < ReviewedSlice}

\* the Review button of a pending card, the View Review button of a reviewed one
handleSelectRecording(i) ==
    /\ selectedRecording = 0
    /\ i \in pendingRecordings \cup ReviewedShown
    /\ selectedRecording' = i
    /\ reviewForm' = InitialReviewForm
    /\ UNCHANGED <<widgetSide, appSide, dbVars, uploadSide, flagSide, recordings, submitLoading,
                   reviewError, reviewNet>>

\* the close button and the Cancel button of the modal
closeModal ==
    /\ selectedRecording # 0
    /\ selectedRecording' = 0
    /\ UNCHANGED <<widgetSide, appSide, dbVars, uploadSide, flagSide, recordings, reviewForm,
                   submitLoading, reviewError, reviewNet>>

\* onChange of the fluency select
setFluency(v) ==
    /\ selectedRecording # 0
    /\ v \in ScoreOptions
    /\ reviewForm' = [reviewForm EXCEPT !.fluency_score = v]
    /\ UNCHANGED <<widgetSide, appSide, dbVars, uploadSide, flagSide, recordings, selectedRecording,
                   submitLoading, reviewError, reviewNet>>

\* onChange of the accuracy select
setAccuracy(v) ==
    /\ selectedRecording # 0
    /\ v \in ScoreOptions
    /\ reviewForm' = [reviewForm EXCEPT !.accuracy_score = v]
    /\ UNCHANGED <<widgetSide, appSide, dbVars, uploadSide, flagSide, recordings, selectedRecording,
                   submitLoading, reviewError, reviewNet>>

\* onChange of the grade radio buttons
setGrade(g) ==
    /\ selectedRecording # 0
    /\ g \in Grades
    /\ reviewForm' = [reviewForm EXCEPT !.grade = g]
    /\ UNCHANGED <<widgetSide, appSide, dbVars, uploadSide, flagSide, recordings, selectedRecording,
                   submitLoading, reviewError, reviewNet>>

\* onChange of the feedback textarea
setFeedback(f) ==
    /\ selectedRecording # 0
    /\ reviewForm' = [reviewForm EXCEPT !.feedback = f]
    /\ UNCHANGED <<widgetSide, appSide, dbVars, uploadSide, flagSide, recordings, selectedRecording,
                   submitLoading, reviewError, reviewNet>>

\* the payload handleSubmitReview posts: {...reviewForm, recording_id}
FormPayload ==
    [id |-> selectedRecording, feedback |-> reviewForm.feedback,
     grade |-> reviewForm.grade, fluency_score |-> reviewForm.fluency_score,
     accuracy_score |-> reviewForm.accuracy_score, from |-> "form"]

\* handleSubmitReview up to its await (the submit button is disabled while
\* submitLoading or while the feedback is blank)
handleSubmitReview ==
    /\ selectedRecording # 0
    /\ ~submitLoading
    /\ reviewForm.feedback # NoText
    /\ submitLoading' = TRUE
    /\ revReq' = revReq \cup {FormPayload}
    /\ UNCHANGED <<widgetSide, appSide, dbVars, uploadSide, flagSide, recordings, selectedRecording,
                   reviewForm, reviewError, revResp>>

\* every entry of the list is rewritten
MarkEveryReviewed(list, q) ==
    [i \in 1..Len(list) |->
        [list[i] EXCEPT !.status = "reviewed", !.teacher_feedback = q.feedback]]

\* the recordings list after a successful review of q.id: the closure's
\* selectedRecording.id and reviewForm.feedback
MarkReviewed(list, q) ==
    [i \in 1..Len(list) |->
        IF i = q.id THEN [list[i] EXCEPT !.status = "reviewed",
                                         !.teacher_feedback = q.feedback]
        ELSE list[i]]

\* the list is updated whether or not the review was accepted
OverwriteList(list, q) == MarkReviewed(list, q)

\* the recordings list after a failed review of q.id
KeepList(list, q) == list

\* handleSubmitReview after its await, the review having succeeded
submitResolved(p) ==
    /\ p \in revResp /\ p.req.from = "form" /\ p.kind = "ok"
    /\ revResp' = revResp \ {p}
    /\ recordings' = MarkReviewed(recordings, p.req)
    /\ selectedRecording' = 0
    /\ submitLoading' = FALSE
    /\ UNCHANGED <<widgetSide, appSide, dbVars, uploadSide, flagSide, reviewForm, reviewError, revReq>>

\* handleSubmitReview after its await, in its catch
submitRejected(p) ==
    /\ p \in revResp /\ p.req.from = "form" /\ p.kind # "ok"
    /\ revResp' = revResp \ {p}
    /\ recordings' = KeepList(recordings, p.req)
    /\ reviewError' = "Failed to submit review. Please try again."
    /\ submitLoading' = FALSE
    /\ UNCHANGED <<widgetSide, appSide, dbVars, uploadSide, flagSide, selectedRecording, reviewForm,
                   revReq>>

\* recordingsAPI.submitReview(recordingId, reviewData: any) called with a payload
\* of the caller's own making
submitReview(q) ==
    /\ q.from = "api"
    /\ \A r \in revReq : r.from # "api"
    /\ \A p \in revResp : p.req.from # "api"
    /\ revReq' = revReq \cup {q}
    /\ UNCHANGED <<widgetSide, appSide, dbVars, uploadSide, flagSide, teacherUI, revResp>>

\* the caller of submitReview receives its answer
apiAnswered(p) ==
    /\ p \in revResp /\ p.req.from = "api"
    /\ revResp' = revResp \ {p}
    /\ UNCHANGED <<widgetSide, appSide, dbVars, uploadSide, flagSide, teacherUI, revReq>>

(* ------------------------------------------------------------------ *)
(* Backend: Analytics / Flagging Engine (specification 4.3, 5)          *)
(* ------------------------------------------------------------------ *)
\* the pairs an engine run evaluates, in the order of its scan
NumPairs == Cardinality(ScanStudents) * Len(FlagTypes)
PairStudent(k) == ((k - 1) \div Len(FlagTypes)) + 1
PairType(k) == FlagTypes[((k - 1) % Len(FlagTypes)) + 1]

FlagsOf(s, t) ==
    {i \in 1..Len(dbFlags) : dbFlags[i].student = s /\ dbFlags[i].flag_type = t}

UnresolvedOf(s, t) == {i \in FlagsOf(s, t) : ~dbFlags[i].is_resolved}

\* a flag of the pair that the student's current window already produced
FlaggedOnWindow(s, t) == \E i \in FlagsOf(s, t) : dbFlags[i].window = window[s]

\* the window that produced a resolved flag is flagged again
ShouldEmitAgain(s, t) == cond[s][t] /\ UnresolvedOf(s, t) = {}

\* does the evaluation of the pair emit a new flag
ShouldEmit(s, t) ==
    /\ cond[s][t]
    /\ UnresolvedOf(s, t) = {}
    /\ ~FlaggedOnWindow(s, t)

NewFlag(s, t) ==
    [student |-> s, flag_type |-> t, is_resolved |-> FALSE,
     resolution_notes |-> NoText, window |-> window[s]]

IdleRun == [pos |-> 0, held |-> FALSE, emit |-> FALSE]

\* no serialization point: every run enters at once
FlagLockNone(s, t) == TRUE

\* may a run enter the serialization point of the pair
FlagLockFree(s, t) == ~flagLock[s][t]

\* the student's history changes (a submission, a review, a day passing): the
\* window is another one and the rules are evaluated afresh
AdvanceWindow(s, c) ==
    /\ window' = [window EXCEPT ![s] = @ + 1]
    /\ cond' = [cond EXCEPT ![s] = c]
    /\ UNCHANGED <<widgetSide, appSide, dbVars, uploadSide, reviewSide, dbFlags, flagLock, runs, flagNet,
                   analyticsUI>>

\* the backend serves a trigger-analysis request: a run starts its scan
EngineStart(r) ==
    /\ trigReq > 0
    /\ runs[r] = IdleRun
    /\ trigReq' = trigReq - 1
    /\ runs' = [runs EXCEPT ![r] = [pos |-> 1, held |-> FALSE, emit |-> FALSE]]
    /\ UNCHANGED <<widgetSide, appSide, dbVars, uploadSide, reviewSide, dbFlags, window, cond, flagLock,
                   resReq, resResp, analyticsUI>>

\* the run enters the serialization point of its next pair and evaluates it
EngineEvaluate(r) ==
    /\ runs[r].pos > 0 /\ ~runs[r].held
    /\ LET s == PairStudent(runs[r].pos)
           t == PairType(runs[r].pos) IN
       /\ FlagLockFree(s, t)
       /\ flagLock' = [flagLock EXCEPT ![s][t] = TRUE]
       /\ runs' = [runs EXCEPT ![r].held = TRUE, ![r].emit = ShouldEmit(s, t)]
    /\ UNCHANGED <<widgetSide, appSide, dbVars, uploadSide, reviewSide, dbFlags, window, cond, flagNet,
                   analyticsUI>>

\* the run writes what it decided, leaves the pair and moves on
EngineWrite(r) ==
    /\ runs[r].held
    /\ LET s == PairStudent(runs[r].pos)
           t == PairType(runs[r].pos) IN
       /\ dbFlags' = IF runs[r].emit THEN Append(dbFlags, NewFlag(s, t)) ELSE dbFlags
       /\ flagLock' = [flagLock EXCEPT ![s][t] = FALSE]
    /\ runs' = [runs EXCEPT ![r] = IF runs[r].pos = NumPairs THEN IdleRun
                                   ELSE [pos |-> runs[r].pos + 1, held |-> FALSE,
                                         emit |-> FALSE]]
    /\ UNCHANGED <<widgetSide, appSide, dbVars, uploadSide, reviewSide, window, cond, flagNet, analyticsUI>>

\* the outcome of a resolve request against the current rows
ResolveOutcome(q) ==
    IF q.id \notin 1..Len(dbFlags) THEN "NotFound"
    ELSE IF dbFlags[q.id].is_resolved THEN "Conflict"
    ELSE "ok"

\* the StudentFlag row after its resolution
ResolvedFlag(f, q) == [f EXCEPT !.is_resolved = TRUE, !.resolution_notes = q.notes]

\* the backend serves one resolve request, start to end, inside the
\* serialization point of the flag's pair
ServerResolve(q) ==
    /\ q \in resReq
    /\ q.id \in 1..Len(dbFlags) =>
          FlagLockFree(dbFlags[q.id].student, dbFlags[q.id].flag_type)
    /\ resReq' = resReq \ {q}
    /\ resResp' = resResp \cup {[req |-> q, kind |-> ResolveOutcome(q)]}
    /\ IF ResolveOutcome(q) = "ok"
       THEN dbFlags' = [dbFlags EXCEPT ![q.id] = ResolvedFlag(@, q)]
       ELSE UNCHANGED dbFlags
    /\ UNCHANGED <<widgetSide, appSide, dbVars, uploadSide, reviewSide, window, cond, flagLock, runs,
                   trigReq, analyticsUI>>

(* ------------------------------------------------------------------ *)
(* Teacher client: AdvancedAnalytics                                    *)
(* ------------------------------------------------------------------ *)
\* AdvancedAnalytics mounts: loadAnalyticsData fetches the flags
loadAnalyticsData ==
    /\ resReq = {} /\ resResp = {}
    /\ flags' = dbFlags
    /\ analyticsError' = NoText
    /\ UNCHANGED <<widgetSide, appSide, dbVars, uploadSide, reviewSide, flagDb, flagNet>>

\* the Run Analysis button: analyticsAPI.triggerAnalysis, not awaited
triggerAnalysis ==
    /\ trigReq' = trigReq + 1
    /\ UNCHANGED <<widgetSide, appSide, dbVars, uploadSide, reviewSide, flagDb, resReq, resResp, analyticsUI>>

\* POST /analytics/trigger-analysis/ refused (no permission, engine unavailable):
\* an explicit error goes back and nothing is written
ServerTriggerReject ==
    /\ trigReq > 0
    /\ trigReq' = trigReq - 1
    /\ trigResp' = trigResp + 1
    /\ UNCHANGED <<widgetSide, dbVars, uploadSide, reviewSide, flagDb, resReq, resResp, analyticsUI,
                   authSide, reportSide, roundSide, practiceSide, createSide>>

\* the promise of the Run Analysis click rejects: the onClick neither awaits it
\* nor catches, so no state of the page changes
triggerRejected ==
    /\ trigResp > 0
    /\ trigResp' = trigResp - 1
    /\ UNCHANGED <<widgetSide, coreSide, authSide, reportSide, roundSide, practiceSide, createSide>>

\* the notes are dropped on the way
ResolveBodyNoNotes(flagId, notes) == [id |-> flagId, notes |-> NoText]

\* analyticsAPI.resolveFlag: the body it posts
ResolveBody(flagId, notes) == [id |-> flagId, notes |-> notes]

\* the request of the n-th click on the Resolve button of a flag card
ResolveRequest(flagId, n) ==
    [id |-> ResolveBody(flagId, ResolveNotes).id,
     notes |-> ResolveBody(flagId, ResolveNotes).notes,
     click |-> n]

\* is the request of the n-th click under way, or its answer not yet received
ResolvePending(flagId, n) ==
    \/ ResolveRequest(flagId, n) \in resReq
    \/ \E p \in resResp : p.req = ResolveRequest(flagId, n)

\* the Resolve button of an unresolved flag card: handleResolveFlag up to its
\* first await.  The button stays enabled while a request is under way.
handleResolveFlag(flagId) ==
    /\ flagId \in 1..Len(flags)
    /\ ~flags[flagId].is_resolved
    /\ \E n \in 1..MaxClicks :
          /\ ~ResolvePending(flagId, n)
          /\ \A m \in 1..(n - 1) : ResolvePending(flagId, m)
          /\ resReq' = resReq \cup {ResolveRequest(flagId, n)}
    /\ UNCHANGED <<widgetSide, appSide, dbVars, uploadSide, reviewSide, flagDb, trigReq, resResp, analyticsUI>>

\* handleResolveFlag after resolveFlag succeeded: getStudentFlags and setFlags
resolveResolved(p) ==
    /\ p \in resResp /\ p.kind = "ok"
    /\ resResp' = resResp \ {p}
    /\ flags' = dbFlags
    /\ UNCHANGED <<widgetSide, appSide, dbVars, uploadSide, reviewSide, flagDb, trigReq, resReq,
                   analyticsError>>

\* handleResolveFlag in its catch
resolveRejected(p) ==
    /\ p \in resResp /\ p.kind # "ok"
    /\ resResp' = resResp \ {p}
    /\ analyticsError' = "Failed to resolve flag."
    /\ UNCHANGED <<widgetSide, appSide, dbVars, uploadSide, reviewSide, flagDb, trigReq, resReq, flags>>

(* ------------------------------------------------------------------ *)
(* Backend: token authentication (specification 6, permission scope)    *)
(* ------------------------------------------------------------------ *)
\* the accounts of the school
Principals == {"teacherA", "teacherB", "admin1", "student1"}

\* types/index.ts: User.user_type of each account
UserType(p) ==
    CASE p \in {"teacherA", "teacherB"} -> "teacher"
      [] p = "admin1" -> "admin"
      [] OTHER -> "student"

Teachers == {p \in Principals : UserType(p) = "teacher"}

\* the token the backend issues to an account
TokenOf(p) ==
    CASE p = "teacherA" -> "tokenA"
      [] p = "teacherB" -> "tokenB"
      [] p = "admin1" -> "tokenAdmin"
      [] OTHER -> "tokenStudent"

\* localStorage.getItem of a key that was never set, as it is formatted in a header
NoToken == "null"

PrincipalOf(tok) == CHOOSE p \in Principals : TokenOf(p) = tok

Authenticated(tok) == tok \in sessions

\* types/index.ts: the User the backend serializes
UserRecord(p) == [username |-> p, user_type |-> UserType(p)]

NoUser == [username |-> NoText, user_type |-> NoText]

\* a password that matches no account
WrongCredentials == "wrong"

\* POST /auth/logout/ ends the session of the token; a request that carries no
\* valid token is refused, or answered like any other, there being nothing to end
LogoutAnswers(tok) == IF Authenticated(tok) THEN {TRUE} ELSE BOOLEAN

\* POST /auth/login/ ; GET /auth/profile/ ; POST /auth/logout/
ServerAuth(q) ==
    /\ q \in authReq
    /\ authReq' = authReq \ {q}
    /\ CASE q.kind = "login" ->
              IF q.who \in Principals
              THEN /\ sessions' = sessions \cup {TokenOf(q.who)}
                   /\ authResp' = authResp \cup
                         {[kind |-> "login", ok |-> TRUE, token |-> TokenOf(q.who),
                           user |-> UserRecord(q.who)]}
              ELSE /\ sessions' = sessions
                   /\ authResp' = authResp \cup
                         {[kind |-> "login", ok |-> FALSE, token |-> NoToken,
                           user |-> NoUser]}
         [] q.kind = "profile" ->
              /\ sessions' = sessions
              /\ authResp' = authResp \cup
                    {IF Authenticated(q.auth)
                     THEN [kind |-> "profile", ok |-> TRUE, token |-> q.auth,
                           user |-> UserRecord(PrincipalOf(q.auth))]
                     ELSE [kind |-> "profile", ok |-> FALSE, token |-> q.auth,
                           user |-> NoUser]}
         [] OTHER ->
              /\ sessions' = sessions \ {q.auth}
              /\ \E ok \in LogoutAnswers(q.auth) :
                    authResp' = authResp \cup
                        {[kind |-> "logout", ok |-> ok, token |-> q.auth,
                          user |-> NoUser]}
    /\ UNCHANGED <<widgetSide, coreSide, authUI, reportSide, otherPages>>

(* ------------------------------------------------------------------ *)
(* The browser session: AuthContext, LoginForm, Dashboard               *)
(* ------------------------------------------------------------------ *)
StorageKeys == {"authToken", "token"}

\* api.ts request interceptor: the Authorization token of an axios request
InterceptorToken == localStorage["authToken"]

\* AuthContext: isStudent, isTeacher
isStudent == user.user_type = "student"
isTeacher == user.user_type = "teacher"

\* App.tsx Dashboard: what the page shows
DashboardView ==
    IF authLoading THEN "Loading"
    ELSE IF user = NoUser THEN "LoginForm"
    ELSE IF isStudent THEN "StudentDashboard"
    ELSE IF isTeacher THEN "TeacherDashboard"
    ELSE "NotRecognized"

\* AdminDashboard: the guard on user.is_admin, a field User does not have
AdminDashboardView(u) ==
    IF "is_admin" \in DOMAIN u /\ u["is_admin"] = TRUE
    THEN "AdminDashboard" ELSE "AccessDenied"

\* the responses that reach a component that is no longer mounted
Orphaned(msgs) == {[m EXCEPT !.from = "unmounted"] : m \in msgs}

\* the page is loaded (again): React state is lost, localStorage is kept;
\* initAuth runs up to its await
initAuth ==
    /\ authReq = {} /\ authResp = {}
    /\ user' = NoUser
    /\ loginLoading' = FALSE
    /\ loginError' = NoText
    /\ IF localStorage["authToken"] # NoToken
       THEN /\ authLoading' = TRUE
            /\ authReq' = {[kind |-> "profile", auth |-> InterceptorToken, who |-> NoText]}
       ELSE /\ authLoading' = FALSE
            /\ authReq' = authReq
    /\ availableReports' = {}
    /\ generatingReports' = {}
    /\ reportError' = NoText
    /\ repReq' = Orphaned(repReq)
    /\ repResp' = Orphaned(repResp)
    /\ UNCHANGED <<widgetSide, coreSide, localStorage, sessions, authResp, otherPages>>

\* initAuth after getProfile answered
profileAnswered(p) ==
    /\ p \in authResp /\ p.kind = "profile"
    /\ authResp' = authResp \ {p}
    /\ IF p.ok
       THEN /\ user' = p.user
            /\ localStorage' = localStorage
       ELSE /\ user' = user
            /\ localStorage' = [localStorage EXCEPT !["authToken"] = NoToken]
    /\ authLoading' = FALSE
    /\ UNCHANGED <<widgetSide, coreSide, loginLoading, loginError, sessions, authReq, reportSide, otherPages>>

\* LoginForm.handleSubmit up to the await of AuthContext.login
handleLogin(c) ==
    /\ DashboardView = "LoginForm"
    /\ ~loginLoading
    /\ loginLoading' = TRUE
    /\ loginError' = NoText
    /\ authReq' = authReq \cup {[kind |-> "login", auth |-> InterceptorToken, who |-> c]}
    /\ UNCHANGED <<widgetSide, coreSide, localStorage, user, authLoading, sessions, authResp,
                   reportSide, otherPages>>

\* AuthContext.login and LoginForm.handleSubmit after the await
loginAnswered(p) ==
    /\ p \in authResp /\ p.kind = "login"
    /\ authResp' = authResp \ {p}
    /\ IF p.ok
       THEN /\ localStorage' = [localStorage EXCEPT !["authToken"] = p.token]
            /\ user' = p.user
            /\ loginError' = loginError
       ELSE /\ localStorage' = localStorage
            /\ user' = user
            /\ loginError' = "Login failed. Please try again."
    /\ loginLoading' = FALSE
    /\ UNCHANGED <<widgetSide, coreSide, authLoading, sessions, authReq, reportSide, otherPages>>

\* AuthContext.logout, from the Logout button of the student and teacher
\* dashboards. axios runs its request interceptors in a promise chain, after
\* the synchronous rest of logout: the request leaves with the token the
\* interceptor finds once the key is removed
logout ==
    /\ DashboardView \in {"StudentDashboard", "TeacherDashboard"}
    /\ localStorage' = [localStorage EXCEPT !["authToken"] = NoToken]
    /\ authReq' = authReq \cup {[kind |-> "logout", auth |-> localStorage'["authToken"],
                                 who |-> NoText]}
    /\ user' = NoUser
    /\ availableReports' = {}
    /\ generatingReports' = {}
    /\ reportError' = NoText
    /\ repReq' = Orphaned(repReq)
    /\ repResp' = Orphaned(repResp)
    /\ UNCHANGED <<widgetSide, coreSide, authLoading, loginLoading, loginError, sessions, authResp, otherPages>>

\* authAPI.logout after its await; AuthContext.logout ignores a failure
logoutAnswered(p) ==
    /\ p \in authResp /\ p.kind = "logout"
    /\ authResp' = authResp \ {p}
    /\ localStorage' = IF p.ok THEN [localStorage EXCEPT !["authToken"] = NoToken]
                       ELSE localStorage
    /\ UNCHANGED <<widgetSide, coreSide, user, authLoading, loginLoading, loginError, sessions,
                   authReq, reportSide, otherPages>>

(* ------------------------------------------------------------------ *)
(* Backend: Report Generator (specification 4.4)                        *)
(* ------------------------------------------------------------------ *)
\* the students of the classes of a teacher
Roster(t) ==
    CASE t = "teacherA" -> {1}
      [] t = "teacherB" -> {2}
      [] OTHER -> {}

\* the reports /analytics/reports/available/ lists for a teacher
ReportKeys == {"teacher_summary_general", "class_performance_1"}

NoRows == [recordings |-> <<>>, flags |-> <<>>]

InRoster(t, row) == row.student \in Roster(t)

\* every row of the school is exported
ReportRowsUnscoped(t) == [recordings |-> dbRecordings, flags |-> dbFlags]

\* the rows visible to the permission scope of the requesting teacher
ReportRows(t) ==
    [recordings |-> SelectSeq(dbRecordings, LAMBDA row : InRoster(t, row)),
     flags |-> SelectSeq(dbFlags, LAMBDA row : InRoster(t, row))]

\* may the bearer of the token download reports
MayExport(tok) == Authenticated(tok) /\ UserType(PrincipalOf(tok)) = "teacher"

\* GET /analytics/reports/generate/
ServerGenerateReport(q) ==
    /\ q \in repReq
    /\ repReq' = repReq \ {q}
    /\ repResp' = repResp \cup
          {[key |-> q.key, call |-> q.call, auth |-> q.auth, from |-> q.from,
            ok |-> MayExport(q.auth),
            rows |-> IF MayExport(q.auth) THEN ReportRows(PrincipalOf(q.auth))
                     ELSE NoRows]}
    /\ UNCHANGED <<widgetSide, coreSide, authSide, reportUI, otherPages>>

\* the calls for a report key that are not answered yet are told apart by a
\* number; a new call takes the lowest number that is free
MaxCalls == 2
CallsInFlight(k) == {m.call : m \in {x \in repReq \cup repResp : x.key = k}}
FreeCall(k) == CHOOSE n \in 1..MaxCalls :
                  /\ n \notin CallsInFlight(k)
                  /\ \A o \in 1..MaxCalls : o \notin CallsInFlight(k) => n <= o

\* a GET sent with the token of a logged-in teacher, outside the BulkReports page
apiGenerateReport(t, k) ==
    /\ Authenticated(TokenOf(t))
    /\ 1..MaxCalls \ CallsInFlight(k) # {}
    /\ repReq' = repReq \cup {[key |-> k, call |-> FreeCall(k), auth |-> TokenOf(t),
                               from |-> "api"]}
    /\ UNCHANGED <<widgetSide, coreSide, authSide, reportUI, repResp, otherPages>>

\* the response reaches a caller that is not the BulkReports page
reportDelivered(p) ==
    /\ p \in repResp /\ p.from # "BulkReports"
    /\ repResp' = repResp \ {p}
    /\ UNCHANGED <<widgetSide, coreSide, authSide, reportUI, repReq, otherPages>>

(* ------------------------------------------------------------------ *)
(* Teacher client: BulkReports                                          *)
(* ------------------------------------------------------------------ *)
\* loadAvailableReports, on mount of the page
loadAvailableReports ==
    /\ DashboardView = "TeacherDashboard"
    /\ IF MayExport(InterceptorToken)
       THEN /\ availableReports' = ReportKeys
            /\ reportError' = reportError
       ELSE /\ availableReports' = availableReports
            /\ reportError' = "Failed to load available reports."
    /\ UNCHANGED <<widgetSide, coreSide, authSide, generatingReports, reportNet, otherPages>>

\* generateReport: the token it puts in the Authorization header
ReportToken == localStorage["token"]

\* generateReport up to the await of fetch
generateReport(k) ==
    /\ DashboardView = "TeacherDashboard"
    /\ k \in availableReports
    /\ k \notin generatingReports
    /\ 1..MaxCalls \ CallsInFlight(k) # {}
    /\ generatingReports' = generatingReports \cup {k}
    /\ reportError' = NoText
    /\ repReq' = repReq \cup {[key |-> k, call |-> FreeCall(k), auth |-> ReportToken,
                               from |-> "BulkReports"]}
    /\ UNCHANGED <<widgetSide, coreSide, authSide, availableReports, repResp, otherPages>>

\* the Download All Reports button: one timeout per available report, each to
\* call generateReport after a random delay
downloadAll ==
    /\ DashboardView = "TeacherDashboard"
    /\ availableReports # {} /\ generatingReports = {}
    /\ \A k \in availableReports : pendingDownloads[k] < MaxCalls
    /\ pendingDownloads' = [k \in ReportKeys |->
                               IF k \in availableReports THEN pendingDownloads[k] + 1
                               ELSE pendingDownloads[k]]
    /\ UNCHANGED <<besidesDownloads, coreSide, authSide, reportSide, otherPages>>

\* a timeout of Download All fires while the page is shown: generateReport up
\* to the await of fetch, whatever generatingReports holds
delayedGenerate(k) ==
    /\ DashboardView = "TeacherDashboard"
    /\ pendingDownloads[k] > 0
    /\ 1..MaxCalls \ CallsInFlight(k) # {}
    /\ pendingDownloads' = [pendingDownloads EXCEPT ![k] = @ - 1]
    /\ generatingReports' = generatingReports \cup {k}
    /\ reportError' = NoText
    /\ repReq' = repReq \cup {[key |-> k, call |-> FreeCall(k), auth |-> ReportToken,
                               from |-> "BulkReports"]}
    /\ UNCHANGED <<besidesDownloads, coreSide, authSide, availableReports, repResp,
                   otherPages>>

\* generateReport after the await: the download, or the catch; then the finally
reportAnswered(p) ==
    /\ p \in repResp /\ p.from = "BulkReports"
    /\ repResp' = repResp \ {p}
    /\ reportError' = IF p.ok THEN reportError
                      ELSE "Failed to generate report. Please try again."
    /\ generatingReports' = generatingReports \ {p.key}
    /\ UNCHANGED <<widgetSide, coreSide, authSide, availableReports, repReq, otherPages>>

(* ------------------------------------------------------------------ *)
(* Aggregates as they are displayed (specification 4.4)                 *)
(* ------------------------------------------------------------------ *)
\* where a completion rate or an average score is shown
Views == {"overview", "studentCard", "teacherAnalytics", "report"}

\* a value no view displays
Hidden == -1

NotShown == [rate |-> Hidden, avg |-> Hidden]

\* completed out of total; the sum of `count` scores
NoAggregate == [completed |-> 0, total |-> 0, sum |-> 0, count |-> 0]

Aggregates ==
    {[completed |-> c, total |-> t, sum |-> s, count |-> n] :
        c \in 0..MaxTotal, t \in 1..MaxTotal, s \in 1..(MaxScore * MaxScored),
        n \in 1..MaxScored}

\* a rate of at most 100%, an average within the score scale
WellFormed(agg) ==
    /\ agg.completed <= agg.total
    /\ agg.sum \in (MinScore * agg.count)..(MaxScore * agg.count)

\* Math.round(n / d) for n >= 0 and d > 0: the nearest integer, a half goes up
MathRound(n, d) == (2 * n + d) \div (2 * d)

\* displayed numbers are held in tenths
Tenths(whole) == 10 * whole

\* the aggregate functions of the backend: rounded to one decimal place
RateOneDecimal(agg) ==
    IF agg.total = 0 THEN 0 ELSE MathRound(1000 * agg.completed, agg.total)

AvgOneDecimal(agg) ==
    IF agg.count = 0 THEN 0 ELSE MathRound(10 * agg.sum, agg.count)

\* Number.prototype.toFixed(1) of a number that has one decimal
ToFixed1(tenths) == tenths

\* AdvancedAnalytics renderOverview: Math.round(average_completion_rate || 0)
OverviewShows(agg) ==
    [rate |-> Tenths(MathRound(RateOneDecimal(agg), 10)), avg |-> Hidden]

\* AdvancedAnalytics renderStudents: Math.round(completion_rate), toFixed(1)
StudentCardShows(agg) ==
    [rate |-> Tenths(MathRound(RateOneDecimal(agg), 10)),
     avg |-> ToFixed1(AvgOneDecimal(agg))]

\* TeacherAnalytics: getCompletionRate, Math.round(avg * 10) / 10
TeacherAnalyticsShows(agg) ==
    [rate |-> IF agg.total = 0 THEN 0
              ELSE Tenths(MathRound(100 * agg.completed, agg.total)),
     avg |-> IF agg.count = 0 THEN 0 ELSE MathRound(10 * agg.sum, agg.count)]

\* the exported report
ReportShows(agg) == [rate |-> RateOneDecimal(agg), avg |-> AvgOneDecimal(agg)]

Displays(v, agg) ==
    CASE v = "overview" -> OverviewShows(agg)
      [] v = "studentCard" -> StudentCardShows(agg)
      [] v = "teacherAnalytics" -> TeacherAnalyticsShows(agg)
      [] OTHER -> ReportShows(agg)

\* a view renders the aggregate
render(v) ==
    /\ shown' = [shown EXCEPT ![v] = Displays(v, aggregate)]
    /\ UNCHANGED <<widgetSide, coreSide, authSide, reportSide, aggregate, trigSide, practiceSide,
                   createSide>>

(* ------------------------------------------------------------------ *)
(* Backend: Assignment Tracker, creation (specification 3, 6)           *)
(* ------------------------------------------------------------------ *)
\* max attempts >= 1 or the sentinel "unlimited"
ValidMaxAttempts(m) == m >= 1 \/ m = Unlimited

\* POST /assignments/create-class-assignment/ : the assignment is created, or the
\* request is refused with an error
ServerCreate(q, ok) ==
    /\ q \in createReq
    /\ createReq' = createReq \ {q}
    /\ createResp' = createResp \cup {[req |-> q, ok |-> ok]}
    /\ dbAssignments' = IF ok THEN Append(dbAssignments, q) ELSE dbAssignments
    /\ UNCHANGED <<widgetSide, coreSide, authSide, reportSide, roundSide, trigSide, practiceSide,
                   createUI>>

(* ------------------------------------------------------------------ *)
(* Teacher client: AssignmentCreation                                   *)
(* ------------------------------------------------------------------ *)
\* the title handleStorySelect fills in
PracticeTitle(story) == IF story = 1 THEN "Reading Practice: The Fox"
                        ELSE "Reading Practice: The Crow"

\* handleSubmit: its check of the required fields
RequiredFilled(f) == f.class_id # 0 /\ f.story_id # 0 /\ f.title # NoText

\* the submit button is enabled
SubmitEnabled == ~createLoading /\ RequiredFilled(newAssignment)

\* click on a class card
selectClass(c) ==
    /\ newAssignment' = [newAssignment EXCEPT !.class_id = c]
    /\ UNCHANGED <<widgetSide, coreSide, authSide, reportSide, roundSide, trigSide, practiceSide,
                   selectedStory, createLoading, createError, createSuccess, createNet>>

\* click on a story card
handleStorySelect(story) ==
    /\ selectedStory' = story
    /\ newAssignment' = [newAssignment EXCEPT !.story_id = story,
                                              !.title = PracticeTitle(story)]
    /\ UNCHANGED <<widgetSide, coreSide, authSide, reportSide, roundSide, trigSide, practiceSide,
                   createLoading, createError, createSuccess, createNet>>

\* the title input
setTitle(t) ==
    /\ newAssignment' = [newAssignment EXCEPT !.title = t]
    /\ UNCHANGED <<widgetSide, coreSide, authSide, reportSide, roundSide, trigSide, practiceSide,
                   selectedStory, createLoading, createError, createSuccess, createNet>>

\* the max-attempts select: Number(e.target.value) of one of its options
setMaxAttempts(m) ==
    /\ m \in MaxAttemptsOptions
    /\ newAssignment' = [newAssignment EXCEPT !.max_attempts = m]
    /\ UNCHANGED <<widgetSide, coreSide, authSide, reportSide, roundSide, trigSide, practiceSide,
                   selectedStory, createLoading, createError, createSuccess, createNet>>

\* the form is submitted (the button is enabled): handleSubmit up to its await
handleSubmit ==
    /\ SubmitEnabled
    /\ IF ~RequiredFilled(newAssignment)
       THEN /\ createError' = "Please fill in all required fields."
            /\ UNCHANGED <<createLoading, createSuccess, createReq>>
       ELSE /\ createLoading' = TRUE
            /\ createError' = NoText
            /\ createSuccess' = NoText
            /\ createReq' = createReq \cup {newAssignment}
    /\ UNCHANGED <<widgetSide, coreSide, authSide, reportSide, roundSide, trigSide, practiceSide,
                   newAssignment, selectedStory, createResp, dbAssignments>>

\* handleSubmit after its await: the form is reset, or the catch; then the finally
createAnswered(p) ==
    /\ p \in createResp
    /\ createResp' = createResp \ {p}
    /\ IF p.ok
       THEN /\ createSuccess' = "Assignment created"
            /\ newAssignment' = InitialAssignment
            /\ selectedStory' = 0
            /\ createError' = createError
       ELSE /\ createError' = "Failed to create assignment. Please try again."
            /\ UNCHANGED <<createSuccess, newAssignment, selectedStory>>
    /\ createLoading' = FALSE
    /\ UNCHANGED <<widgetSide, coreSide, authSide, reportSide, roundSide, trigSide, practiceSide,
                   createReq, dbAssignments>>

(* ------------------------------------------------------------------ *)
(* Frontend: BulkAudioGeneration (simulated generation jobs)            *)
(* ------------------------------------------------------------------ *)
BulkStories == {1, 2}
VoiceInputs == {"female_1"}
MaxJobs == 2
MaxClock == 1

DefaultVoice == "female_1"
FullProgress == 100
\* Math.random() * 15, in whole percent: 0 is a possible draw
Increments == {0, 14}
JobStatus == {"pending", "processing", "completed", "failed"}

calculateTotalFiles == Cardinality(selectedStories) * Cardinality(selectedVoices)

Min2(a, b) == IF a < b THEN a ELSE b

\* the job as updateProgress rewrites it with the draw r
updateProgress(job, r) ==
    LET newProgress == Min2(job.progress + r, FullProgress)
    IN [job EXCEPT !.progress = newProgress,
                   !.completedFiles = (newProgress * job.totalFiles) \div FullProgress,
                   !.status = IF newProgress >= FullProgress
                              THEN "completed" ELSE "processing"]

\* the positions of the jobs that carry the id
JobsWithId(id) == {i \in DOMAIN generationJobs : generationJobs[i].id = id}

\* prev.find(j => j.id === jobId): the first such job
FindJob(id) == CHOOSE i \in JobsWithId(id) : \A o \in JobsWithId(id) : i <= o

\* the position of the job that was started together with interval k
JobOfInterval(k) == Len(generationJobs) - k + 1

handleBulkStorySelect(st) ==
    /\ bulkMounted
    /\ selectedStories' = IF st \in selectedStories
                          THEN selectedStories \ {st}
                          ELSE selectedStories \cup {st}
    /\ UNCHANGED <<besidesBulk, selectedVoices, generationJobs, intervals,
                   now, bulkMounted>>

handleVoiceSelect(v) ==
    /\ bulkMounted
    /\ selectedVoices' = IF v \in selectedVoices
                         THEN selectedVoices \ {v}
                         ELSE selectedVoices \cup {v}
    /\ UNCHANGED <<besidesBulk, selectedStories, generationJobs, intervals,
                   now, bulkMounted>>

\* the Start button is enabled only with a story and a voice ticked
handleStartGeneration ==
    /\ bulkMounted
    /\ selectedStories # {} /\ selectedVoices # {}
    /\ Len(generationJobs) < MaxJobs
    /\ LET newJob == [id |-> now,
                      stories |-> selectedStories,
                      voiceTypes |-> selectedVoices,
                      status |-> "pending",
                      progress |-> 0,
                      totalFiles |-> calculateTotalFiles,
                      completedFiles |-> 0]
       IN /\ generationJobs' = <<newJob>> \o generationJobs
          /\ intervals' = Append(intervals, [job |-> newJob.id, active |-> TRUE])
    /\ selectedStories' = {}
    /\ selectedVoices' = {DefaultVoice}
    /\ UNCHANGED <<besidesBulk, now, bulkMounted>>

\* the callback of interval k: it clears the interval when its job is gone or
\* full, and then runs updateProgress on every job that carries the id; once
\* the component is unmounted the updates are never applied
intervalFires(k) ==
    /\ k \in DOMAIN intervals
    /\ intervals[k].active
    /\ LET id == intervals[k].job
           done == \/ JobsWithId(id) = {}
                   \/ generationJobs[FindJob(id)].progress >= FullProgress
       IN /\ intervals' = IF done THEN [intervals EXCEPT ![k].active = FALSE]
                          ELSE intervals
          /\ IF bulkMounted
             THEN \E r \in [JobsWithId(id) -> Increments] :
                     generationJobs' =
                         [i \in DOMAIN generationJobs |->
                             IF i \in JobsWithId(id)
                             THEN updateProgress(generationJobs[i], r[i])
                             ELSE generationJobs[i]]
             ELSE generationJobs' = generationJobs
    /\ UNCHANGED <<besidesBulk, selectedStories, selectedVoices, now,
                   bulkMounted>>

\* the teacher opens another tab of the dashboard: the component is unmounted,
\* and nothing clears its intervals
leaveAudioTab ==
    /\ bulkMounted
    /\ bulkMounted' = FALSE
    /\ UNCHANGED <<besidesBulk, selectedStories, selectedVoices,
                   generationJobs, intervals, now>>

\* a millisecond passes
clockAdvanceTo(limit) ==
    /\ now < limit
    /\ now' = now + 1
    /\ UNCHANGED <<besidesBulk, selectedStories, selectedVoices,
                   generationJobs, intervals, bulkMounted>>

clockAdvance == clockAdvanceTo(MaxClock)

(* ------------------------------------------------------------------ *)
(* Teacher client: ClassManagement, the student search of a class       *)
(* ------------------------------------------------------------------ *)
MaxSearches == 3
MaxAdds == 1

\* usernames and typed queries, as sequences of characters
Usernames == {<<"a", "b", "b">>, <<"a", "b", "e">>}
QueryInputs == {<<>>, <<"a">>, <<"a", "b">>, <<"a", "b", "e">>}
MinQueryLength == 2
NoQuery == <<>>
NoStudent == <<>>

IsPrefix(q, u) == Len(q) <= Len(u) /\ SubSeq(u, 1, Len(q)) = q

\* GET /auth/search-students/?q= : the students whose username matches
Matches(q) == {u \in Usernames : IsPrefix(q, u)}

\* the backend serving the class endpoints: search, add-student, class details;
\* a search is a read and is always answered with its matches
ServerClass(q) ==
    /\ q \in classReq
    /\ classReq' = classReq \ {q}
    /\ CASE q.kind = "search" ->
              /\ dbClass' = dbClass
              /\ classResp' = classResp \cup
                    {[n |-> q.n, kind |-> "search", ok |-> TRUE,
                      results |-> Matches(q.query)]}
         [] q.kind = "add" ->
              /\ dbClass' = IF q.student \in dbClass THEN dbClass
                            ELSE dbClass \cup {q.student}
              /\ classResp' = classResp \cup
                    {[n |-> q.n, kind |-> "add", ok |-> q.student \notin dbClass,
                      results |-> {}]}
         [] OTHER ->
              /\ dbClass' = dbClass
              /\ classResp' = classResp \cup
                    {[n |-> q.n, kind |-> "get", ok |-> TRUE, results |-> dbClass]}
    /\ UNCHANGED <<besidesSearch, studentSearchQuery, searchResults, searchLoading,
                   classError, selectedClass, classSent>>

\* the search input's onChange: setStudentSearchQuery, then handleSearchStudents
\* up to its await
onSearchChange(q) ==
    /\ q # studentSearchQuery
    /\ studentSearchQuery' = q
    /\ IF Len(q) < MinQueryLength
       THEN /\ searchResults' = {}
            /\ UNCHANGED <<searchLoading, classReq, classSent>>
       ELSE /\ classSent < MaxSearches
            /\ searchLoading' = TRUE
            /\ classSent' = classSent + 1
            /\ classReq' = classReq \cup
                  {[n |-> classSent + 1, kind |-> "search", query |-> q,
                    student |-> NoStudent]}
            /\ searchResults' = searchResults
    /\ UNCHANGED <<besidesSearch, classError, selectedClass, classResp, dbClass>>

\* handleSearchStudents after its await
searchAnswered(p) ==
    /\ p \in classResp /\ p.kind = "search"
    /\ classResp' = classResp \ {p}
    /\ searchResults' = IF p.ok THEN p.results ELSE searchResults
    /\ searchLoading' = FALSE
    /\ UNCHANGED <<besidesSearch, studentSearchQuery, classError, selectedClass,
                   classReq, classSent, dbClass>>

\* the Add button of a search result: handleAddStudent up to its first await
handleAddStudent(st) ==
    /\ st \in searchResults
    /\ Cardinality({q \in classReq \cup classResp : q.kind # "search"}) < MaxAdds
    /\ classReq' = classReq \cup
          {[n |-> 0, kind |-> "add", query |-> NoQuery, student |-> st]}
    /\ UNCHANGED <<besidesSearch, studentSearchQuery, searchResults, searchLoading,
                   classError, selectedClass, classResp, classSent, dbClass>>

\* handleAddStudent between its awaits: the class is fetched again
addAnswered(p) ==
    /\ p \in classResp /\ p.kind = "add"
    /\ classResp' = classResp \ {p}
    /\ IF p.ok
       THEN /\ classReq' = classReq \cup
                  {[n |-> 0, kind |-> "get", query |-> NoQuery, student |-> NoStudent]}
            /\ classError' = classError
       ELSE /\ classReq' = classReq
            /\ classError' = "Failed to add student to class."
    /\ UNCHANGED <<besidesSearch, studentSearchQuery, searchResults, searchLoading,
                   selectedClass, classSent, dbClass>>

\* handleAddStudent after its second await
classRefreshed(p) ==
    /\ p \in classResp /\ p.kind = "get"
    /\ classResp' = classResp \ {p}
    /\ selectedClass' = p.results
    /\ studentSearchQuery' = NoQuery
    /\ searchResults' = {}
    /\ UNCHANGED <<besidesSearch, searchLoading, classError, classReq, classSent,
                   dbClass>>

(* ------------------------------------------------------------------ *)
(* Student client: AudioRecorder                                        *)
(* ------------------------------------------------------------------ *)
MaxStarts == 2
MaxTime == 2
MaxSubmits == 1

NoRecorder == 0
NoTimer == 0
NoAudio == <<>>

\* the Start button is shown
StartShown == ~hasRecording /\ ~isRecording
\* the Stop button is shown
StopShown == ~hasRecording /\ isRecording

\* startRecording up to its await: getUserMedia is asked for the microphone
startRecording ==
    /\ StartShown
    /\ Len(recorders) + pendingMedia < MaxStarts
    /\ recError' = NoText
    /\ pendingMedia' = pendingMedia + 1
    /\ UNCHANGED <<besidesRecorder, isRecording, hasRecording, recordingTime,
                   mediaRecorderRef, recorders, audioChunksRef, audioUrlRef,
                   timerRef, timers, lastStopped, submittedAudio>>

\* startRecording after its await, the microphone granted: a new MediaRecorder
\* and a new interval replace the ones the refs held
mediaGranted ==
    /\ pendingMedia > 0
    /\ pendingMedia' = pendingMedia - 1
    /\ recorders' = Append(recorders, "recording")
    /\ mediaRecorderRef' = Len(recorders) + 1
    /\ audioChunksRef' = NoAudio
    /\ isRecording' = TRUE
    /\ recordingTime' = 0
    /\ timerRef' = Len(recorders) + 1
    /\ timers' = timers \cup {Len(recorders) + 1}
    /\ UNCHANGED <<besidesRecorder, hasRecording, recError, audioUrlRef,
                   lastStopped, submittedAudio>>

\* startRecording after its await, the microphone refused: the catch
mediaDenied ==
    /\ pendingMedia > 0
    /\ pendingMedia' = pendingMedia - 1
    /\ recError' = "Unable to access microphone. Please check your browser permissions."
    /\ UNCHANGED <<besidesRecorder, isRecording, hasRecording, recordingTime,
                   mediaRecorderRef, recorders, audioChunksRef, audioUrlRef,
                   timerRef, timers, lastStopped, submittedAudio>>

\* the interval callback of timer t
timerTick(t) ==
    /\ t \in timers
    /\ recordingTime < MaxTime
    /\ recordingTime' = recordingTime + 1
    /\ UNCHANGED <<besidesRecorder, isRecording, hasRecording, recError,
                   pendingMedia, mediaRecorderRef, recorders, audioChunksRef,
                   audioUrlRef, timerRef, timers, lastStopped, submittedAudio>>

stopRecording ==
    /\ StopShown
    /\ mediaRecorderRef # NoRecorder /\ isRecording
    /\ recorders' = [recorders EXCEPT ![mediaRecorderRef] = "stopping"]
    /\ lastStopped' = mediaRecorderRef
    /\ isRecording' = FALSE
    /\ timers' = timers \ {timerRef}
    /\ timerRef' = NoTimer
    /\ UNCHANGED <<besidesRecorder, hasRecording, recordingTime, recError,
                   pendingMedia, mediaRecorderRef, audioChunksRef, audioUrlRef,
                   submittedAudio>>

\* the dataavailable event of a stopped MediaRecorder: its audio is pushed to
\* whatever array audioChunksRef holds by then
ondataavailable(r) ==
    /\ r \in DOMAIN recorders /\ recorders[r] = "stopping"
    /\ recorders' = [recorders EXCEPT ![r] = "flushed"]
    /\ audioChunksRef' = Append(audioChunksRef, r)
    /\ UNCHANGED <<besidesRecorder, isRecording, hasRecording, recordingTime,
                   recError, pendingMedia, mediaRecorderRef, audioUrlRef, timerRef,
                   timers, lastStopped, submittedAudio>>

\* the stop event of a MediaRecorder, after its last dataavailable
onstop(r) ==
    /\ r \in DOMAIN recorders /\ recorders[r] = "flushed"
    /\ recorders' = [recorders EXCEPT ![r] = "inactive"]
    /\ audioUrlRef' = audioChunksRef
    /\ hasRecording' = TRUE
    /\ UNCHANGED <<besidesRecorder, isRecording, recordingTime, recError,
                   pendingMedia, mediaRecorderRef, audioChunksRef, timerRef, timers,
                   lastStopped, submittedAudio>>

handleRetry ==
    /\ hasRecording
    /\ hasRecording' = FALSE
    /\ recordingTime' = 0
    /\ audioUrlRef' = NoAudio
    /\ UNCHANGED <<besidesRecorder, isRecording, recError, pendingMedia,
                   mediaRecorderRef, recorders, audioChunksRef, timerRef, timers,
                   lastStopped, submittedAudio>>

\* AudioRecorder.handleSubmit: onComplete gets a blob of the chunks, if any
handleSubmitRecording ==
    /\ hasRecording
    /\ Len(submittedAudio) < MaxSubmits
    /\ submittedAudio' = IF Len(audioChunksRef) > 0
                         THEN Append(submittedAudio, audioChunksRef)
                         ELSE submittedAudio
    /\ UNCHANGED <<besidesRecorder, isRecording, hasRecording, recordingTime,
                   recError, pendingMedia, mediaRecorderRef, recorders,
                   audioChunksRef, audioUrlRef, timerRef, timers, lastStopped>>

(* ------------------------------------------------------------------ *)
(* Frontend utilities: the limiters of security.ts                      *)
(* ------------------------------------------------------------------ *)
MaxLimiterClock == 4
MaxLimiterCalls == 4
\* Date.now() when the page was loaded: milliseconds since 1970, far beyond
\* any interval a limiter is created with
PageLoadTime == 10
MaxRequestsInputs == {0, 1, 2}
TimeWindowInputs == {0, 1, 2}
MinIntervalInputs == {0, 1, 2, 3}

DateNow == PageLoadTime + now

ExpiredEarly(r, t) == t - r >= timeWindow

\* createRateLimiter: a request of time r is outside the window at time t
Expired(r, t) == t - r > timeWindow

\* the while loop: requests are shifted off the front as long as the first is old
RECURSIVE Prune(_, _)
Prune(reqs, t) ==
    IF Len(reqs) > 0 /\ Expired(reqs[1], t) THEN Prune(Tail(reqs), t) ELSE reqs

\* one call of the function createRateLimiter returned
rateLimiterCall ==
    /\ Len(rateLog) < MaxLimiterCalls
    /\ LET t == DateNow
           kept == Prune(requests, t)
           refused == Len(kept) >= maxRequests
       IN /\ requests' = IF refused THEN kept ELSE Append(kept, t)
          /\ rateLog' = Append(rateLog, [at |-> t, ok |-> ~refused])
    /\ UNCHANGED <<besidesLimiters, maxRequests, timeWindow, minInterval,
                   lastSubmission, submitLog>>

TooSoonInclusive(t) == t - lastSubmission <= minInterval

\* createSubmissionLimiter: the call at time t comes too soon after the last
TooSoon(t) == t - lastSubmission < minInterval

\* one call of the function createSubmissionLimiter returned
submissionLimiterCall ==
    /\ Len(submitLog) < MaxLimiterCalls
    /\ LET t == DateNow
       IN /\ lastSubmission' = IF TooSoon(t) THEN lastSubmission ELSE t
          /\ submitLog' = Append(submitLog, [at |-> t, ok |-> ~TooSoon(t)])
    /\ UNCHANGED <<besidesLimiters, maxRequests, timeWindow, requests, rateLog,
                   minInterval>>

(* ------------------------------------------------------------------ *)
(* Specifications                                                       *)
(* ------------------------------------------------------------------ *)
InitDb(mx) ==
    /\ maxAttempts \in [Assignments -> mx]
    /\ dbProgress = [s \in Students |-> [a \in Assignments |->
                        [attempts_used |-> 0, completed |-> FALSE]]]
    /\ dbRecordings = <<>>

InitUpload ==
    /\ rowLock = [s \in Students |-> [a \in Assignments |-> FALSE]]
    /\ upReq = [s \in Students |-> [a \in Assignments |-> 0]]
    /\ upWork = [s \in Students |-> [a \in Assignments |-> <<>>]]
    /\ upResp = [s \in Students |-> [a \in Assignments |-> NoResponses]]
    /\ sent = 0
    /\ assignments = [s \in Students |-> [a \in Assignments |-> NotLoaded]]
    /\ showReader = [s \in Students |-> [a \in Assignments |-> FALSE]]
    /\ showRecording = [s \in Students |-> [a \in Assignments |-> FALSE]]

InitReview ==
    /\ recordings = <<>>
    /\ selectedRecording = 0
    /\ reviewForm = InitialReviewForm
    /\ submitLoading = FALSE
    /\ reviewError = NoText
    /\ revReq = {}
    /\ revResp = {}

InitFlagsOn(first) ==
    /\ dbFlags = <<>>
    /\ window = [s \in Students |-> 0]
    /\ cond \in [Students -> first]
    /\ flagLock = [s \in Students |-> [t \in FlagTypeSet |-> FALSE]]
    /\ runs = [r \in 1..MaxRuns |-> IdleRun]
    /\ trigReq = 0
    /\ resReq = {}
    /\ resResp = {}
    /\ flags = <<>>
    /\ analyticsError = NoText

\* a browser that never opened the application; the backend accepts `toks`
InitSessionWith(toks) ==
    /\ localStorage = [k \in StorageKeys |-> NoToken]
    /\ user = NoUser
    /\ authLoading = TRUE
    /\ loginLoading = FALSE
    /\ loginError = NoText
    /\ sessions = toks
    /\ authReq = {}
    /\ authResp = {}

InitReportsPage ==
    /\ availableReports = {}
    /\ generatingReports = {}
    /\ reportError = NoText
    /\ repReq = {}
    /\ repResp = {}

\* StoryCard and AssignmentCreation as they mount; no trigger was rejected
InitPages ==
    /\ trigResp = 0
    /\ practiceReader = [s \in Students |-> FALSE]
    /\ practiceRecording = [s \in Students |-> FALSE]
    /\ completions = 0
    /\ newAssignment = InitialAssignment
    /\ selectedStory = 0
    /\ createLoading = FALSE
    /\ createError = NoText
    /\ createSuccess = NoText
    /\ createReq = {}
    /\ createResp = {}
    /\ dbAssignments = <<>>

\* the aggregate is one of `aggs`, no view rendered it yet
InitAggregate(aggs) ==
    /\ aggregate \in aggs
    /\ shown = [v \in Views |-> NotShown]

\* the audio tab as first shown: nothing ticked but the default voice, no job
InitBulk ==
    /\ selectedStories = {}
    /\ selectedVoices = {DefaultVoice}
    /\ generationJobs = <<>>
    /\ intervals = <<>>
    /\ now = 0
    /\ bulkMounted = TRUE

\* the details of a class with no students are open, the search box is empty
InitSearch ==
    /\ studentSearchQuery = NoQuery
    /\ searchResults = {}
    /\ searchLoading = FALSE
    /\ classError = NoText
    /\ selectedClass = {}
    /\ classReq = {}
    /\ classResp = {}
    /\ classSent = 0
    /\ dbClass = {}

\* an AudioRecorder as mounted: nothing recorded, no microphone asked for
InitRecorder ==
    /\ isRecording = FALSE
    /\ hasRecording = FALSE
    /\ recordingTime = 0
    /\ recError = NoText
    /\ pendingMedia = 0
    /\ mediaRecorderRef = NoRecorder
    /\ recorders = <<>>
    /\ audioChunksRef = NoAudio
    /\ audioUrlRef = NoAudio
    /\ timerRef = NoTimer
    /\ timers = {}
    /\ lastStopped = NoRecorder
    /\ submittedAudio = <<>>

InitDownloads == pendingDownloads = [k \in ReportKeys |-> 0]

\* limiters as created, with parameters from the sets, not called yet
InitLimiters(mrs, tws, mis) ==
    /\ maxRequests \in mrs
    /\ timeWindow \in tws
    /\ requests = <<>>
    /\ rateLog = <<>>
    /\ minInterval \in mis
    /\ lastSubmission = 0
    /\ submitLog = <<>>

InitComponents == InitBulk /\ InitSearch /\ InitRecorder /\ InitDownloads

InitWidgets == InitComponents /\ InitLimiters({1}, {1}, {1})

\* nobody is logged in, no page of the teacher dashboard is mounted
InitApp ==
    /\ InitSessionWith({}) /\ InitReportsPage /\ InitAggregate({NoAggregate})
    /\ InitPages /\ InitWidgets

\* no rule fires on the first window
InitFlags == InitFlagsOn({[t \in FlagTypeSet |-> FALSE]})

\* after construction: one assignment that allows a single attempt (the first
\* option of the max-attempts select), nothing uploaded, every page unmounted
Init == InitDb({1}) /\ InitUpload /\ InitReview /\ InitFlags /\ InitApp

\* the student clients and the Recording Store
NextUpload ==
    \/ \E s \in Students : loadData(s)
    \/ \E s \in Students, a \in Assignments : handleStartAssignment(s, a)
    \/ \E s \in Students, a \in Assignments : onClose(s, a)
    \/ \E s \in Students, a \in Assignments : handleStartRecording(s, a)
    \/ \E s \in Students, a \in Assignments : onCancel(s, a)
    \/ \E s \in Students, a \in Assignments :
          sent < MaxUploads /\ handleRecordingComplete(s, a)
    \/ \E s \in Students, a \in Assignments : uploadResolved(s, a)
    \/ \E s \in Students, a \in Assignments : uploadRejected(s, a)
    \/ \E s \in Students, a \in Assignments : ServerUploadBegin(s, a)
    \/ \E s \in Students, a \in Assignments, w \in 1..MaxUploads :
          ServerUploadCommit(s, a, w)

\* an assignment with any max_attempts of the select, nothing uploaded
InitAnyLimit == InitDb(MaxAttemptsOptions) /\ InitUpload /\ InitReview /\ InitFlags /\ InitApp

SpecUpload == InitAnyLimit /\ [][NextUpload]_vars

\* a single-attempt assignment, nothing uploaded
InitSingleAttempt == InitDb({1}) /\ InitUpload /\ InitReview /\ InitFlags /\ InitApp

\* the student clients and the Recording Store, uploads failing validation or
\* aborted included
NextFailingUpload ==
    \/ NextUpload
    \/ \E s \in Students, a \in Assignments, k \in UploadFailures :
          ServerUploadReject(s, a, k)

SpecFailingUpload == InitSingleAttempt /\ [][NextFailingUpload]_vars

\* two uploads of student 1 for assignment 1 have been accepted and answered, the
\* student's page is closed: the state the review workflow starts from
InitUploaded ==
    /\ maxAttempts = [a \in Assignments |-> DefaultMaxAttempts]
    /\ dbProgress = [s \in Students |-> [a \in Assignments |->
                        IF s = 1 /\ a = 1
                        THEN [attempts_used |-> 2, completed |-> TRUE]
                        ELSE [attempts_used |-> 0, completed |-> FALSE]]]
    /\ dbRecordings = <<NewRecording(1, 1, 1), NewRecording(1, 1, 2)>>
    /\ rowLock = [s \in Students |-> [a \in Assignments |-> FALSE]]
    /\ upReq = [s \in Students |-> [a \in Assignments |-> 0]]
    /\ upWork = [s \in Students |-> [a \in Assignments |-> <<>>]]
    /\ upResp = [s \in Students |-> [a \in Assignments |-> NoResponses]]
    /\ sent = 2
    /\ assignments = [s \in Students |-> [a \in Assignments |-> NotLoaded]]
    /\ showReader = [s \in Students |-> [a \in Assignments |-> FALSE]]
    /\ showRecording = [s \in Students |-> [a \in Assignments |-> FALSE]]

\* the payloads posted directly through recordingsAPI.submitReview
ApiPayloads(ids, scores) ==
    {[id |-> i, feedback |-> "api", grade |-> "good", fluency_score |-> sc[1],
      accuracy_score |-> sc[2], from |-> "api"] : i \in ids, sc \in scores}

\* the review page and the Review Workflow: the teacher works on the recordings
\* `ids`, picks scores among `fl` and `ac` and grades among `gr`; direct posts
\* carry the payloads `api`.  The form is edited while no submission is in flight.
ReviewStep(ids, fl, ac, gr, api) ==
    \/ loadRecordings
    \/ \E i \in ids : handleSelectRecording(i)
    \/ closeModal
    \/ \E v \in fl : ~submitLoading /\ setFluency(v)
    \/ \E v \in ac : ~submitLoading /\ setAccuracy(v)
    \/ \E g \in gr : ~submitLoading /\ setGrade(g)
    \/ \E f \in FeedbackInputs : ~submitLoading /\ setFeedback(f)
    \/ handleSubmitReview
    \/ \E p \in revResp : submitResolved(p)
    \/ \E p \in revResp : submitRejected(p)
    \/ \E q \in api : submitReview(q)
    \/ \E p \in revResp : apiAnswered(p)
    \/ \E q \in revReq : ServerReview(q)

\* the review workflow over both recordings, the form explored on a part of its
\* options
NextReview ==
    \/ ReviewStep({1, 2}, FluencyInputs, AccuracyInputs, GradeInputs,
                  ApiPayloads({1, 3}, {<<4, 4>>}))
    \/ \E i \in 1..Len(dbRecordings) : ServerFlagRecording(i)

\* the review page opens on the two uploaded recordings
InitReviewPage == InitUploaded /\ InitReview /\ InitFlags /\ InitApp

SpecReview == InitReviewPage /\ [][NextReview]_vars

\* the review form explored on all its options, over the first recording
NextForm ==
    ReviewStep({1}, ScoreOptions, ScoreOptions, Grades, ApiPayloads({1}, ApiScorePairs))

SpecForm == InitReviewPage /\ [][NextForm]_vars

\* what the rules say of a window in the behaviours explored: none fires, only
\* the first, only the last
RuleOutcomes ==
    {[t \in FlagTypeSet |-> FALSE],
     [t \in FlagTypeSet |-> t = FlagTypes[1]],
     [t \in FlagTypeSet |-> t = FlagTypes[Len(FlagTypes)]]}

\* the analytics dashboard and the flagging engine
NextFlags ==
    \/ \E s \in ScanStudents :
          \E c \in RuleOutcomes :
             window[s] < MaxWindow /\ AdvanceWindow(s, c)
    \/ trigReq < MaxTriggers /\ triggerAnalysis
    \/ \E r \in 1..MaxRuns :
          \* the runs are interchangeable: a new one takes the first free slot
          (\A r2 \in 1..(r - 1) : runs[r2] # IdleRun) /\ EngineStart(r)
    \/ \E r \in 1..MaxRuns : EngineEvaluate(r)
    \/ \E r \in 1..MaxRuns : EngineWrite(r)
    \/ loadAnalyticsData
    \/ \E i \in 1..Len(flags) :
          Cardinality(resReq) + Cardinality(resResp) < MaxClicks /\ handleResolveFlag(i)
    \/ \E q \in resReq : ServerResolve(q)
    \/ \E p \in resResp : resolveResolved(p)
    \/ \E p \in resResp : resolveRejected(p)

\* nothing uploaded; on the first window of the scanned students no rule fires,
\* or only the first
InitFlagsAny ==
    /\ InitDb({DefaultMaxAttempts}) /\ InitUpload /\ InitReview
    /\ InitFlagsOn({[t \in FlagTypeSet |-> FALSE], [t \in FlagTypeSet |-> t = FlagTypes[1]]})
    /\ \A s \in Students \ ScanStudents : cond[s] = [t \in FlagTypeSet |-> FALSE]
    /\ InitApp

SpecFlags == InitFlagsAny /\ [][NextFlags]_vars

\* each of the two students uploaded once for the assignment; every upload was
\* answered and the student pages are closed
InitTwoRosters ==
    /\ maxAttempts = [a \in Assignments |-> DefaultMaxAttempts]
    /\ dbProgress = [s \in Students |-> [a \in Assignments |->
                        [attempts_used |-> 1, completed |-> TRUE]]]
    /\ dbRecordings = <<NewRecording(1, 1, 1), NewRecording(2, 1, 1)>>
    /\ InitUpload

\* both teachers are logged in (each from a client of their own); the first rule
\* fires on the first window of every student
InitReports ==
    /\ InitTwoRosters /\ InitReview
    /\ InitFlagsOn({[t \in FlagTypeSet |-> t = FlagTypes[1]]})
    /\ InitSessionWith({TokenOf(t) : t \in Teachers}) /\ InitReportsPage
    /\ InitAggregate({NoAggregate}) /\ InitPages /\ InitWidgets

\* the Report Generator serving both teachers while recordings are reviewed and
\* flagged and the engine writes flags
NextReports ==
    \/ \E t \in Teachers : apiGenerateReport(t, "teacher_summary_general")
    \/ \E q \in repReq : ServerGenerateReport(q)
    \/ \E p \in repResp : reportDelivered(p)
    \/ \E q \in ApiPayloads({1, 2}, {<<4, 4>>}) : submitReview(q)
    \/ \E q \in revReq : ServerReview(q)
    \/ \E p \in revResp : apiAnswered(p)
    \/ \E i \in 1..Len(dbRecordings) : ServerFlagRecording(i)
    \/ trigReq < MaxTriggers /\ triggerAnalysis
    \/ EngineStart(1)
    \/ EngineEvaluate(1)
    \/ EngineWrite(1)

SpecReports == InitReports /\ [][NextReports]_vars

\* a well-formed aggregate, not yet rendered; nothing else is in use
InitRound ==
    /\ InitDb({DefaultMaxAttempts}) /\ InitUpload /\ InitReview /\ InitFlags
    /\ InitSessionWith({}) /\ InitReportsPage /\ InitPages /\ InitWidgets
    /\ InitAggregate({agg \in Aggregates : WellFormed(agg)})

\* the views render the aggregate, in any order
NextRound == \E v \in Views : render(v)

SpecRound == InitRound /\ [][NextRound]_vars

\* the accounts that log in from the browser, and a wrong password
LoginInputs == {"teacherA", "admin1", WrongCredentials}

\* one browser: loading the page, logging in and out, the BulkReports page
NextSession ==
    \/ initAuth
    \/ \E p \in authResp : profileAnswered(p)
    \/ \E c \in LoginInputs : handleLogin(c)
    \/ \E p \in authResp : loginAnswered(p)
    \/ logout
    \/ \E p \in authResp : logoutAnswered(p)
    \/ \E q \in authReq : ServerAuth(q)
    \/ loadAvailableReports
    \/ \E k \in ReportKeys : generateReport(k)
    \/ \E q \in repReq : ServerGenerateReport(q)
    \/ \E p \in repResp : reportAnswered(p)
    \/ \E p \in repResp : reportDelivered(p)

\* a browser that never opened the application, a backend nobody logged in to
InitBrowser ==
    /\ InitDb({DefaultMaxAttempts}) /\ InitUpload /\ InitReview /\ InitFlags
    /\ InitApp

SpecSession == InitBrowser /\ [][NextSession]_vars

\* the analytics dashboard and the flagging engine, trigger requests refused
\* included
NextFailingAnalysis ==
    \/ NextFlags
    \/ trigResp < MaxTriggers /\ ServerTriggerReject
    \/ triggerRejected

SpecFailingAnalysis == InitFlagsAny /\ [][NextFailingAnalysis]_vars

\* recordings of assigned stories and of stories opened from the library
NextPractice ==
    \/ NextUpload
    \/ \E s \in ScanStudents : handleReadStory(s)
    \/ \E s \in ScanStudents : practiceClose(s)
    \/ \E s \in ScanStudents : practiceStartRecording(s)
    \/ \E s \in ScanStudents : practiceCancel(s)
    \/ \E s \in ScanStudents : completions < MaxUploads /\ practiceRecordingComplete(s)

SpecPractice == InitSingleAttempt /\ [][NextPractice]_vars

\* what the teacher clicks and types in the AssignmentCreation form
ClassInputs == {1}
StoryInputs == {1}
TitleInputs == {NoText, "Week 1"}

\* the AssignmentCreation form and the creation endpoint
NextCreate ==
    \/ \E c \in ClassInputs : selectClass(c)
    \/ \E story \in StoryInputs : handleStorySelect(story)
    \/ \E t \in TitleInputs : setTitle(t)
    \/ \E m \in MaxAttemptsOptions : setMaxAttempts(m)
    \/ Len(dbAssignments) < MaxCreated /\ handleSubmit
    \/ \E q \in createReq, ok \in BOOLEAN : ServerCreate(q, ok)
    \/ \E p \in createResp : createAnswered(p)

SpecCreate == InitBrowser /\ [][NextCreate]_vars

\* the whole pipeline: one student uploading for one single-attempt assignment,
\* the teacher reviewing with the scores the form starts with, one engine run
\* at a time over a window on which every rule fires
Next ==
    \/ loadData(1)
    \/ handleStartAssignment(1, 1)
    \/ handleStartRecording(1, 1)
    \/ sent < MaxPipelineUploads /\ handleRecordingComplete(1, 1)
    \/ uploadResolved(1, 1)
    \/ uploadRejected(1, 1)
    \/ ServerUploadBegin(1, 1)
    \/ ServerUploadCommit(1, 1, 1)
    \/ loadRecordings
    \/ \E i \in 1..Len(recordings) : handleSelectRecording(i)
    \/ ~submitLoading /\ setFeedback("Good pacing")
    \/ handleSubmitReview
    \/ \E p \in revResp : submitResolved(p)
    \/ \E p \in revResp : submitRejected(p)
    \/ \E q \in revReq : ServerReview(q)
    \/ window[1] < MaxWindow /\ AdvanceWindow(1, [t \in FlagTypeSet |-> TRUE])
    \/ trigReq < MaxTriggers /\ triggerAnalysis
    \/ EngineStart(1)
    \/ EngineEvaluate(1)
    \/ EngineWrite(1)

Spec == Init /\ [][Next]_vars

\* the audio tab: the teacher ticks stories and voices, starts jobs and may
\* leave the tab, while the intervals fire
NextBulk ==
    \/ \E st \in BulkStories : handleBulkStorySelect(st)
    \/ \E v \in VoiceInputs : handleVoiceSelect(v)
    \/ handleStartGeneration
    \/ \E k \in 1..MaxJobs : intervalFires(k)
    \/ leaveAudioTab
    \/ clockAdvance

SpecBulk == InitBrowser /\ [][NextBulk]_vars

\* an interval that is set keeps firing, and a draw of Math.random() is not 0
\* for ever: a firing that changes something is not postponed for ever
intervalAdvances(k) == intervalFires(k) /\ <<generationJobs, intervals>>' # <<generationJobs, intervals>>

SpecBulkFair ==
    /\ InitBrowser /\ [][NextBulk]_vars
    /\ \A k \in 1..MaxJobs : WF_vars(intervalAdvances(k))

\* the details of one class are open: the teacher types in the search box and
\* adds students found
NextSearch ==
    \/ \E q \in QueryInputs : onSearchChange(q)
    \/ \E q \in classReq : ServerClass(q)
    \/ \E p \in classResp : searchAnswered(p)
    \/ \E st \in Usernames : handleAddStudent(st)
    \/ \E p \in classResp : addAnswered(p)
    \/ \E p \in classResp : classRefreshed(p)

SpecSearch == InitBrowser /\ [][NextSearch]_vars

\* one AudioRecorder: the student starts, stops, retries and submits, while
\* the microphone requests, MediaRecorder events and intervals complete
NextRecorder ==
    \/ startRecording
    \/ mediaGranted
    \/ mediaDenied
    \/ \E t \in 1..MaxStarts : timerTick(t)
    \/ stopRecording
    \/ \E r \in 1..MaxStarts : ondataavailable(r)
    \/ \E r \in 1..MaxStarts : onstop(r)
    \/ handleRetry
    \/ handleSubmitRecording

SpecRecorder == InitBrowser /\ [][NextRecorder]_vars

\* a teacher logs in and works on the BulkReports page: single downloads and
\* Download All, the timeouts firing and the requests being answered
NextDownloads ==
    \/ authLoading /\ initAuth
    \/ handleLogin("teacherA")
    \/ \E q \in authReq : ServerAuth(q)
    \/ \E p \in authResp : loginAnswered(p)
    \/ loadAvailableReports
    \/ \E k \in ReportKeys : generateReport(k)
    \/ downloadAll
    \/ \E k \in ReportKeys : delayedGenerate(k)
    \/ \E q \in repReq : ServerGenerateReport(q)
    \/ \E p \in repResp : reportAnswered(p)

SpecDownloads == InitBrowser /\ [][NextDownloads]_vars

\* a rate limiter created with any of the parameters, called as time passes
InitRateLimiter ==
    /\ InitDb({DefaultMaxAttempts}) /\ InitUpload /\ InitReview /\ InitFlags
    /\ InitSessionWith({}) /\ InitReportsPage /\ InitAggregate({NoAggregate})
    /\ InitPages /\ InitComponents
    /\ InitLimiters(MaxRequestsInputs, TimeWindowInputs, {1})

NextRateLimiter ==
    \/ rateLimiterCall
    \/ clockAdvanceTo(MaxLimiterClock)

SpecRateLimiter == InitRateLimiter /\ [][NextRateLimiter]_vars

\* a submission limiter created with any minimal interval
InitSubmissionLimiter ==
    /\ InitDb({DefaultMaxAttempts}) /\ InitUpload /\ InitReview /\ InitFlags
    /\ InitSessionWith({}) /\ InitReportsPage /\ InitAggregate({NoAggregate})
    /\ InitPages /\ InitComponents
    /\ InitLimiters({1}, {1}, MinIntervalInputs)

NextSubmissionLimiter ==
    \/ submissionLimiterCall
    \/ clockAdvanceTo(MaxLimiterClock)

SpecSubmissionLimiter == InitSubmissionLimiter /\ [][NextSubmissionLimiter]_vars

(* ------------------------------------------------------------------ *)
(* Properties of the Recording Store and of the student client          *)
(* ------------------------------------------------------------------ *)
Accepted(s, a) == Cardinality(RecordingsOf(s, a))

\* C1: for an assignment with a finite max_attempts, whatever the interleaving
\* of the uploads one student sends for it, the accepted recordings of the
\* (student, assignment) pair never outnumber max_attempts.
C1_AttemptLimitHolds ==
    \A s \in Students, a \in Assignments :
        ~IsUnlimited(a) => Accepted(s, a) <= maxAttempts[a]

\* two uploads of one student were under way together at the ceiling: the last
\* attempt went to one, the other was refused, neither answer has been read yet
C1_Witness ==
    \E s \in Students, a \in Assignments :
        /\ ~IsUnlimited(a)
        /\ Accepted(s, a) = maxAttempts[a]
        /\ upResp[s][a].created > 0
        /\ upResp[s][a].limitExceeded > 0

\* an upload is answered 201 / is refused in this step
UploadSucceeds(s, a) == upResp'[s][a].created = upResp[s][a].created + 1
UploadRefused(s, a) == upResp'[s][a].limitExceeded = upResp[s][a].limitExceeded + 1

\* C4: a successful upload raises the pair's attempts-used by exactly 1, and no
\* step of the pipeline (upload, refused upload, review, engine run) lowers it.
C4_AttemptsCountUp ==
    [][\A s \in Students, a \in Assignments :
          /\ dbProgress'[s][a].attempts_used >= dbProgress[s][a].attempts_used
          /\ UploadSucceeds(s, a) =>
                dbProgress'[s][a].attempts_used = dbProgress[s][a].attempts_used + 1
      ]_vars

\* an upload was accepted and another one refused, the recording was reviewed
\* and an engine run has raised flags
C4_Witness ==
    /\ dbProgress[1][1].attempts_used = 1
    /\ upResp[1][1].limitExceeded > 0
    /\ \E i \in 1..Len(dbRecordings) : dbRecordings[i].status = "reviewed"
    /\ Len(dbFlags) > 0

\* C5: an upload for a pair whose attempts-used has reached a finite
\* max_attempts is refused (AttemptLimitExceeded) and leaves attempts-used and
\* the recordings as they were; an upload is refused only in that case, so never
\* for an unlimited assignment.
C5_RefusedAtLimit ==
    [][\A s \in Students, a \in Assignments :
          \* the step in which a worker finishes an upload of the pair
          Len(upWork'[s][a]) < Len(upWork[s][a]) =>
             IF ~IsUnlimited(a) /\ dbProgress[s][a].attempts_used >= maxAttempts[a]
             THEN /\ UploadRefused(s, a)
                  /\ dbProgress' = dbProgress
                  /\ dbRecordings' = dbRecordings
             ELSE /\ UploadSucceeds(s, a)
                  /\ upResp'[s][a].limitExceeded = upResp[s][a].limitExceeded
      ]_vars

\* the fourth upload on a 3-attempt assignment has been refused
C5_Witness ==
    \E s \in Students, a \in Assignments :
        /\ maxAttempts[a] = 3
        /\ dbProgress[s][a].attempts_used = 3
        /\ Accepted(s, a) = 3
        /\ upResp[s][a].limitExceeded > 0

\* the page is handed the 201 of an upload of the pair in this step
UploadAnswered(s, a) == upResp'[s][a].created < upResp[s][a].created

\* the pair has used up a finite max_attempts
Exhausted(s, a) == ~UnderLimit(a, dbProgress[s][a].attempts_used)

\* the student's page sends an upload for the pair in this step
UploadSent(s, a) == upReq'[s][a] > upReq[s][a]

\* C17: after a successful upload the assignment the student's page holds
\* reflects the new attempts-used and can_attempt: once the upload that exhausts
\* the limit has succeeded, can_attempt is false there and the page sends no
\* further upload for the assignment
C17_ClientSeesExhaustedLimit ==
    [][\A s \in Students, a \in Assignments :
          /\ (UploadAnswered(s, a) /\ Exhausted(s, a)) =>
                 /\ ~assignments'[s][a].can_attempt
                 /\ assignments'[s][a].attempts_used = dbProgress[s][a].attempts_used
          /\ (Exhausted(s, a) /\ upResp[s][a].created = 0 /\ upWork[s][a] = <<>>
                 /\ upReq[s][a] = 0) => ~UploadSent(s, a)
      ]_vars

\* a recording is completed in a StoryReader in this step
RecordingCompleted == completions' = completions + 1

\* C18: every recording a student completes in the StoryReader results in one
\* upload request, whether or not the story was opened from an assignment
C18_EveryRecordingUploaded == [][RecordingCompleted => sent' = sent + 1]_vars

\* what C8 asks of a progress row, and of the copy a student client holds
ProgressInvariant(s, a) ==
    /\ ~IsUnlimited(a) => dbProgress[s][a].attempts_used <= maxAttempts[a]
    /\ dbProgress[s][a].completed <=> Accepted(s, a) >= 1
    /\ assignments[s][a].loaded =>
          /\ ~IsUnlimited(a) => assignments[s][a].attempts_used <= maxAttempts[a]
          /\ assignments[s][a].is_completed => Accepted(s, a) >= 1

\* C8: in every state a progress row has attempts-used at most max_attempts
\* unless the assignment is unlimited, is completed only if a recording of the
\* pair was accepted, is completed from the first accepted recording on, and
\* never goes back to not completed.
C8_ProgressInvariant ==
    /\ [](\A s \in Students, a \in Assignments : ProgressInvariant(s, a))
    /\ [][\A s \in Students, a \in Assignments :
             dbProgress[s][a].completed => dbProgress'[s][a].completed]_vars

\* a pair has used its last attempt and the student's page shows it completed
C8_Witness ==
    \E s \in Students, a \in Assignments :
        /\ ~IsUnlimited(a)
        /\ dbProgress[s][a].attempts_used = maxAttempts[a]
        /\ maxAttempts[a] >= 2
        /\ assignments[s][a].loaded /\ assignments[s][a].is_completed

\* C9: the attempt numbers of a pair's recordings strictly increase in the order
\* of acceptance, so no two of them share a number; a recording, once inserted,
\* is never replaced by a later upload.
C9_AttemptNumbersIncrease ==
    /\ [](\A i, j \in 1..Len(dbRecordings) :
             (/\ i < j
              /\ dbRecordings[i].student = dbRecordings[j].student
              /\ dbRecordings[i].assignment = dbRecordings[j].assignment)
             => dbRecordings[i].attempt_number < dbRecordings[j].attempt_number)
    /\ [][/\ Len(dbRecordings') >= Len(dbRecordings)
          /\ \A i \in 1..Len(dbRecordings) : dbRecordings'[i] = dbRecordings[i]]_vars

\* both students have recordings, one of them two for the same assignment
C9_Witness ==
    /\ Accepted(1, 1) >= 2
    /\ Accepted(2, 1) >= 1

\* an upload of the pair is answered with an error, or lost, in this step
UploadFails(s, a) ==
    \E k \in {"limitExceeded"} \cup UploadFailures :
        upResp'[s][a][k] = upResp[s][a][k] + 1

\* C11: an upload that is rejected (payload too large, media type not allowed,
\* attempt limit reached) or aborted creates no Recording row and changes no
\* attempts-used counter and no completed flag: the rows and the progress after
\* the step are those before it.
C11_FailedUploadChangesNothing ==
    [][\A s \in Students, a \in Assignments :
          UploadFails(s, a) =>
             /\ dbRecordings' = dbRecordings
             /\ dbProgress' = dbProgress
             /\ maxAttempts' = maxAttempts]_vars

\* a pair has used its only attempt; uploads of it were refused at the limit,
\* refused as too large and aborted, and only the accepted one left a row
C11_Witness ==
    \E s \in Students, a \in Assignments :
        /\ Accepted(s, a) = 1
        /\ dbProgress[s][a].attempts_used = 1
        /\ upResp[s][a].limitExceeded > 0
        /\ upResp[s][a].tooLarge > 0
        /\ upResp[s][a].aborted > 0

(* ------------------------------------------------------------------ *)
(* Properties of the Review Workflow and of the review page             *)
(* ------------------------------------------------------------------ *)
HasScores(r) == r.fluency_score # NoScore /\ r.accuracy_score # NoScore

\* status changes of one recording that the data model allows
StatusStepAllowed(old, new) ==
    \/ new = old
    \/ old = "pending" /\ new \in {"reviewed", "flagged"}

\* C2: a recording's status only goes from pending to reviewed or from pending
\* to flagged, and in every state, in the backend rows and in the teacher's
\* recordings list alike, a recording has its fluency and accuracy scores if and
\* only if its status is reviewed.
C2_StatusAndScores ==
    /\ [](/\ \A i \in 1..Len(dbRecordings) :
               /\ dbRecordings[i].status \in RecordingStatus
               /\ dbRecordings[i].status = "reviewed" <=> HasScores(dbRecordings[i])
          /\ \A i \in 1..Len(recordings) :
               /\ recordings[i].status \in RecordingStatus
               /\ recordings[i].status = "reviewed" <=> HasScores(recordings[i]))
    /\ [][/\ \A i \in 1..Len(dbRecordings) :
               StatusStepAllowed(dbRecordings[i].status, dbRecordings'[i].status)
          /\ \A i \in 1..Len(recordings) :
               i <= Len(recordings') =>
                  StatusStepAllowed(recordings[i].status, recordings'[i].status)]_vars

\* the request served in this step, if it is q
Served(q) == q \in revReq /\ q \notin revReq'
AnswerTo(q) == CHOOSE p \in revResp' : p.req = q

\* C6: a review for a recording that is not pending is refused, with
\* AlreadyReviewed when its scores are in range, and changes nothing: a row
\* that left pending keeps its scores, grade and feedback for good, and so
\* does its entry in the teacher's list, also when the second review comes
\* from the View Review card of a reviewed recording.
C6_NoSecondReview ==
    [][/\ \A q \in revReq :
            (Served(q) /\ RecordingExists(q.id)
                       /\ dbRecordings[q.id].status # "pending") =>
               /\ dbRecordings' = dbRecordings
               /\ AnswerTo(q).kind # "ok"
               /\ ValidPayload(q) => AnswerTo(q).kind = "AlreadyReviewed"
       /\ \A i \in 1..Len(dbRecordings) :
            dbRecordings[i].status # "pending" => dbRecordings'[i] = dbRecordings[i]
       /\ \A i \in 1..Len(recordings) :
            (recordings[i].status # "pending" /\ ~loadRecordings) =>
               recordings'[i] = recordings[i]
      ]_vars

\* a review sent from the View Review card of a recording the list shows as
\* reviewed has been refused with AlreadyReviewed
C6_Witness ==
    \E p \in revResp :
        /\ p.req.from = "form"
        /\ p.kind = "AlreadyReviewed"
        /\ p.req.id \in 1..Len(recordings)
        /\ recordings[p.req.id].status = "reviewed"
        /\ dbRecordings[p.req.id].teacher_feedback # p.req.feedback

\* the fields of a Recording row a review does not write
Identity(r) == [student |-> r.student, assignment |-> r.assignment,
                attempt_number |-> r.attempt_number]

\* the rows other than `id` are as they were, and `id` is still the same recording
OnlyChanges(id, before, after) ==
    /\ Len(after) = Len(before)
    /\ \A i \in 1..Len(before) :
          IF i = id THEN Identity(after[i]) = Identity(before[i])
          ELSE after[i] = before[i]

\* the answer to a review of the form that this step hands to the page, if it is p
Handed(p) == p \in revResp /\ p \notin revResp' /\ p.req.from = "form"

\* C16: submitting a review changes only the reviewed recording: attempts-used
\* and every other recording are left as they were, in the backend when the
\* review is served and in the teacher's list when the answer comes back
C16_ReviewChangesOneRecording ==
    [][/\ \A q \in revReq :
            Served(q) => /\ dbProgress' = dbProgress
                         /\ maxAttempts' = maxAttempts
                         /\ OnlyChanges(q.id, dbRecordings, dbRecordings')
       /\ \A p \in revResp :
            Handed(p) => OnlyChanges(p.req.id, recordings, recordings')
      ]_vars

\* the review of recording 1 sent from the form was accepted and its answer handled:
\* recording 2 is still pending in the backend and in the list, attempts-used is 2
C16_Witness ==
    /\ dbRecordings[1].status = "reviewed"
    /\ dbRecordings[1].teacher_feedback = "Good pacing"
    /\ dbRecordings[2] = NewRecording(1, 1, 2)
    /\ Len(recordings) = 2
    /\ recordings[1].status = "reviewed"
    /\ recordings[2].status = "pending"
    /\ dbProgress[1][1].attempts_used = 2
    /\ revReq = {} /\ revResp = {}

\* C7: no review with a fluency or accuracy score outside 1..5 is ever applied:
\* whatever the review form holds or has sent has both scores in 1..5 and a
\* grade among excellent, good, needs_practice, and a payload with a score out
\* of range is refused with InvalidScore and leaves the recordings unchanged.
C7_ScoresInRange ==
    /\ [](/\ ValidScore(reviewForm.fluency_score)
          /\ ValidScore(reviewForm.accuracy_score)
          /\ reviewForm.grade \in Grades
          /\ \A q \in revReq : q.from = "form" => ValidPayload(q) /\ q.grade \in Grades
          /\ \A i \in 1..Len(dbRecordings) :
               /\ dbRecordings[i].fluency_score \in {NoScore} \cup (MinScore..MaxScore)
               /\ dbRecordings[i].accuracy_score \in {NoScore} \cup (MinScore..MaxScore))
    /\ [][\A q \in revReq :
            (Served(q) /\ RecordingExists(q.id) /\ ~ValidPayload(q)) =>
               /\ dbRecordings' = dbRecordings
               /\ AnswerTo(q).kind = "InvalidScore"]_vars

\* a review with a score out of range has been refused with InvalidScore for a
\* recording that is still pending, and the form holds the scores 1 and 5
C7_Witness ==
    /\ \E p \in revResp :
          /\ p.kind = "InvalidScore"
          /\ dbRecordings[p.req.id].status = "pending"
    /\ reviewForm.fluency_score = 1
    /\ reviewForm.accuracy_score = 5

(* ------------------------------------------------------------------ *)
(* Properties of the flagging engine and of the analytics dashboard     *)
(* ------------------------------------------------------------------ *)
\* C3: after any engine runs, two of them interleaved included, and any
\* resolutions, a (student, flag type) pair has at most one unresolved flag, and
\* no step adds a flag to a pair that has an unresolved one.
C3_OneUnresolvedFlagPerPair ==
    /\ [](\A s \in Students, t \in FlagTypeSet : Cardinality(UnresolvedOf(s, t)) <= 1)
    /\ [][\A i \in (1..Len(dbFlags')) \ (1..Len(dbFlags)) :
             UnresolvedOf(dbFlags'[i].student, dbFlags'[i].flag_type) = {}]_vars

\* two runs are under way together, both past the first pair of the scan, which
\* has one unresolved flag and a resolved one
C3_Witness ==
    /\ \A r \in 1..2 : runs[r].pos > 1
    /\ Cardinality(UnresolvedOf(PairStudent(1), PairType(1))) = 1
    /\ \E i \in FlagsOf(PairStudent(1), PairType(1)) : dbFlags[i].is_resolved

\* C10: resolving a flag sets it resolved with the notes of the Resolve button,
\* a resolved flag stays as it is for good, and an engine run over the window
\* that produced a resolved flag creates no new flag of the same pair: no two
\* flags of a pair come from the same window.
C10_ResolvedStaysResolved ==
    /\ [](/\ \A i \in 1..Len(dbFlags) :
               dbFlags[i].is_resolved => dbFlags[i].resolution_notes = ResolveNotes
          /\ \A i, j \in 1..Len(dbFlags) :
               (/\ i # j
                /\ dbFlags[i].student = dbFlags[j].student
                /\ dbFlags[i].flag_type = dbFlags[j].flag_type)
               => dbFlags[i].window # dbFlags[j].window)
    /\ [][/\ \A q \in resReq :
               (q \notin resReq' /\ ResolveOutcome(q) = "ok") =>
                  /\ dbFlags'[q.id].is_resolved
                  /\ dbFlags'[q.id].resolution_notes = q.notes
          /\ \A i \in 1..Len(dbFlags) :
               dbFlags[i].is_resolved => dbFlags'[i] = dbFlags[i]]_vars

\* a flag was resolved; a run that entered the pair's serialization point after
\* that, on the window that produced the flag and with the rule still firing,
\* has decided to emit nothing
C10_Witness ==
    \E r \in 1..MaxRuns :
        /\ runs[r].held /\ ~runs[r].emit
        /\ LET s == PairStudent(runs[r].pos)
               t == PairType(runs[r].pos) IN
           /\ cond[s][t]
           /\ UnresolvedOf(s, t) = {}
           /\ \E i \in FlagsOf(s, t) :
                 /\ dbFlags[i].is_resolved
                 /\ dbFlags[i].resolution_notes = ResolveNotes
                 /\ dbFlags[i].window = window[s]

(* ------------------------------------------------------------------ *)
(* Properties of the Report Generator                                   *)
(* ------------------------------------------------------------------ *)
\* what the backend holds about the students of a teacher's own classes
OwnData(t) ==
    [s \in Roster(t) |->
        [progress |-> dbProgress[s],
         recordings |-> SelectSeq(dbRecordings, LAMBDA row : row.student = s),
         flags |-> SelectSeq(dbFlags, LAMBDA row : row.student = s)]]

RowsWithin(rows, t) == \A i \in 1..Len(rows) : rows[i].student \in Roster(t)

\* every report on its way to a teacher holds rows of that teacher's roster only
ReportScoped ==
    \A p \in repResp :
       p.ok => /\ RowsWithin(p.rows.recordings, PrincipalOf(p.auth))
               /\ RowsWithin(p.rows.flags, PrincipalOf(p.auth))

\* a step that leaves the data of a teacher's own students as it was leaves the
\* report of that teacher as it was
OthersDoNotInterfere ==
    \A t \in Teachers : OwnData(t)' = OwnData(t) => ReportRows(t)' = ReportRows(t)

SameWhereShown(x, y) == x = Hidden \/ y = Hidden \/ x = y

\* C13: completion rates and average scores are rounded to one decimal place by
\* one rule everywhere: all views that display an aggregate display the value the
\* exported report gives
C13_SameRounding ==
    \A v \in Views :
       /\ SameWhereShown(shown[v].rate, RateOneDecimal(aggregate))
       /\ SameWhereShown(shown[v].avg, AvgOneDecimal(aggregate))

(* ------------------------------------------------------------------ *)
(* Properties of the browser session                                    *)
(* ------------------------------------------------------------------ *)
LoggedInAs(type) == ~authLoading /\ user.user_type = type

\* what a logged-in administrator can be shown: the page Dashboard renders, and
\* the page AdminDashboard renders for that user
AdminPages == {DashboardView, AdminDashboardView(user)}

\* C14: a logged-in user whose user_type is admin is shown the administrative
\* analytics dashboard, not only 'User type not recognized' or 'Access Denied'
C14_AdminSeesDashboard == LoggedInAs("admin") => "AdminDashboard" \in AdminPages

\* the report requests the BulkReports page puts on the wire in a step
NewReportRequests == {q \in repReq' : q \notin repReq /\ q.from = "BulkReports"}

\* C19: a report download request is authenticated as the logged-in principal: the
\* token generateReport sends is the token login stored, the one every other API
\* request carries
C19_ReportTokenIsLoginToken ==
    [][\A q \in NewReportRequests :
          q.auth = InterceptorToken /\ q.auth = TokenOf(user.username)]_vars

\* C23: whenever user is non-null the authToken is in localStorage, whatever the
\* interleaving of login, logout and the completion of their requests: the
\* removeItem that authAPI.logout defers until its request is answered never
\* removes the token a later login stored
C23_UserHasToken == user # NoUser => localStorage["authToken"] # NoToken

\* C26: the logout request carries the Authorization token of the session that
\* is being ended, so that the server can invalidate it
C26_LogoutCarriesToken ==
    [][ logout =>
          \A q \in authReq' \ authReq :
              q.kind = "logout" => q.auth = localStorage["authToken"] ]_vars

(* ------------------------------------------------------------------ *)
(* Properties of error reporting                                        *)
(* ------------------------------------------------------------------ *)
\* the step hands the page the rejection of a trigger-analysis request
TriggerFails == trigResp' < trigResp

\* the step hands the page the rejection of a resolve request
ResolveFails == \E p \in resResp : p \notin resResp' /\ p.kind # "ok"

\* C15: no rejected write is silently swallowed: when a write issued from the
\* analytics page (trigger analysis, resolve flag) fails, the state the user sees
\* afterwards records an error
C15_NoSwallowedError ==
    [][(TriggerFails \/ ResolveFails) => analyticsError' # NoText]_vars

(* ------------------------------------------------------------------ *)
(* Properties of the AssignmentCreation form                            *)
(* ------------------------------------------------------------------ *)
ValidRequest(q) ==
    /\ ValidMaxAttempts(q.max_attempts)
    /\ q.class_id # 0
    /\ q.story_id # 0
    /\ q.title # NoText

\* the form puts a request on the wire in this step
CreateSent == createReq' # createReq /\ createReq \subseteq createReq'

\* C20: every create-class-assignment request the form sends has max_attempts at
\* least 1 or the unlimited sentinel -1, a non-zero class_id, a non-zero story_id
\* and a non-empty title; no request is sent while one of these is missing
C20_OnlyValidRequests ==
    /\ [](\A q \in createReq : ValidRequest(q))
    /\ [][CreateSent => ValidRequest(newAssignment)]_vars

\* a first assignment was created and the form reset; the form, filled in again
\* with a typed title and unlimited attempts, has sent its request
C20_Witness ==
    /\ Len(dbAssignments) = 1
    /\ createLoading
    /\ \E q \in createReq : q.max_attempts = Unlimited /\ q.title = "Week 1"

(* ------------------------------------------------------------------ *)
(* Properties of the simulated bulk-generation jobs                     *)
(* ------------------------------------------------------------------ *)
\* a started job keeps its place counted from the end of the list
LaterJob(i) == generationJobs'[i + Len(generationJobs') - Len(generationJobs)]

JobStepOk(old, new) ==
    /\ new.progress >= old.progress
    /\ new.progress \in 0..FullProgress
    /\ new.status \in JobStatus \ {"failed"}
    /\ (new.status = "completed") <=> (new.progress = FullProgress)
    /\ new.completedFiles <= new.totalFiles
    /\ new.status # "pending" =>
           new.completedFiles = (new.progress * new.totalFiles) \div FullProgress
    /\ old.status = "completed" => new = old

\* C21: for every simulated job, progress never decreases and stays in 0..100,
\* completedFiles is floor(progress/100 * totalFiles) once the job has ticked and
\* never exceeds totalFiles, the status is completed exactly when progress is
\* 100, a completed job never changes again, failed is never reached, and a tick
\* for one job leaves every other job unchanged
C21_JobsEvolveAlone ==
    [][ /\ \A i \in DOMAIN generationJobs : JobStepOk(generationJobs[i], LaterJob(i))
        /\ \A k \in DOMAIN intervals :
              intervalFires(k) =>
                  \A i \in DOMAIN generationJobs \ {JobOfInterval(k)} :
                      generationJobs'[i] = generationJobs[i] ]_vars

\* C22: every job that handleStartGeneration starts eventually is completed with
\* all its files, and its interval is then cleared for good
C22_EveryJobCompletes ==
    \A k \in 1..MaxJobs :
        (k \in DOMAIN intervals) ~>
            [](/\ k \in DOMAIN intervals
               /\ generationJobs[JobOfInterval(k)].status = "completed"
               /\ generationJobs[JobOfInterval(k)].completedFiles
                      = generationJobs[JobOfInterval(k)].totalFiles
               /\ ~intervals[k].active)

(* ------------------------------------------------------------------ *)
(* Properties of the student search                                     *)
(* ------------------------------------------------------------------ *)
SearchInFlight == \E m \in classReq \cup classResp : m.kind = "search"

\* C24: whenever no student search is in flight, searchResults is the response
\* to the current studentSearchQuery, or empty when that query is shorter than 2
\* characters: a late response to an older query never replaces them
C24_ResultsOfCurrentQuery ==
    ~SearchInFlight =>
        searchResults = IF Len(studentSearchQuery) < MinQueryLength THEN {}
                        ELSE Matches(studentSearchQuery)

(* ------------------------------------------------------------------ *)
(* Properties of the AudioRecorder                                      *)
(* ------------------------------------------------------------------ *)
\* C25: isRecording and hasRecording are never both true, whatever the
\* interleaving of startRecording and its pending getUserMedia, stopRecording,
\* the onstop callback and handleRetry; and whenever hasRecording is true the
\* chunks handleSubmit would send are the audio, not empty, of the recording
\* that was just stopped
C25_RecordingOrRecorded ==
    /\ ~(isRecording /\ hasRecording)
    /\ hasRecording => audioChunksRef = <<lastStopped>>

RetryStep == hasRecording /\ ~hasRecording'

\* C30: at most one recording timer is active at any time, and only while
\* isRecording is true: recordingTime grows by exactly 1 per tick during a
\* recording and stays as it is from stopRecording until the next recording
\* starts (Record Again resets it), also when startRecording is invoked again
\* before an earlier getUserMedia call has resolved
C30_OneTimerWhileRecording ==
    [][ /\ Cardinality(timers') <= 1
        /\ timers' # {} => isRecording'
        /\ (\E t \in timers : timerTick(t)) => recordingTime' = recordingTime + 1
        /\ (~isRecording /\ ~isRecording' /\ ~RetryStep)
               => recordingTime' = recordingTime ]_vars

(* ------------------------------------------------------------------ *)
(* Properties of the BulkReports page                                   *)
(* ------------------------------------------------------------------ *)
\* a generateReport call of the page for the key is between its start and its
\* finally
InProgress(k) == \E m \in repReq \cup repResp : m.key = k /\ m.from = "BulkReports"

\* C27: a report key is in generatingReports exactly while a generateReport call
\* for that key is in progress, also when Download All Reports is clicked more
\* than once before its delayed calls start; once every started generation has
\* finished, generatingReports is empty
C27_GeneratingWhileInProgress ==
    \A k \in ReportKeys : k \in generatingReports <=> InProgress(k)

(* ------------------------------------------------------------------ *)
(* Properties of the limiters                                           *)
(* ------------------------------------------------------------------ *)
AcceptedCalls(log) == {i \in DOMAIN log : log[i].ok}

\* the accepted calls of the log no older than w at time t, oldest first
RECURSIVE AcceptedWithin(_, _, _)
AcceptedWithin(log, t, w) ==
    IF log = <<>> THEN <<>>
    ELSE IF log[1].ok /\ t - log[1].at <= w
         THEN <<log[1].at>> \o AcceptedWithin(Tail(log), t, w)
         ELSE AcceptedWithin(Tail(log), t, w)

\* C28: with a non-decreasing clock, the calls that returned true within any
\* interval of length timeWindow are never more than maxRequests, a call is
\* refused only when maxRequests accepted calls lie within the last timeWindow,
\* and a refused call consumes no quota: requests holds the accepted calls of
\* the last window and nothing else
C28_RateLimited ==
    /\ \A i \in AcceptedCalls(rateLog) :
          Cardinality({j \in AcceptedCalls(rateLog) :
                          /\ rateLog[i].at <= rateLog[j].at
                          /\ rateLog[j].at <= rateLog[i].at + timeWindow})
              <= maxRequests
    /\ \A i \in DOMAIN rateLog \ AcceptedCalls(rateLog) :
          Cardinality({j \in AcceptedCalls(rateLog) :
                          j < i /\ rateLog[i].at - rateLog[j].at <= timeWindow})
              >= maxRequests
    /\ rateLog # <<>> =>
          requests = AcceptedWithin(rateLog, rateLog[Len(rateLog)].at, timeWindow)

\* a call was refused at the limit and a later call, the window over, accepted
C28_Witness ==
    /\ maxRequests = 2
    /\ \E i, j, k \in DOMAIN rateLog :
          /\ i < j /\ j < k
          /\ rateLog[i].ok /\ ~rateLog[j].ok /\ rateLog[k].ok
          /\ rateLog[j].at - rateLog[i].at = timeWindow

\* the time of the last accepted call before call i, 0 when there is none
LastAcceptedBefore(log, i) ==
    LET earlier == {j \in AcceptedCalls(log) : j < i}
    IN IF earlier = {} THEN 0
       ELSE log[CHOOSE j \in earlier : \A o \in earlier : o <= j].at

====
